---- MODULE Spec2Model ----
(***************************************************************************)
(* A model of the memory subsystem of foundation_lib                      *)
(* (src/foundation/memory.c): the per-thread memory-context stack, the     *)
(* lock-free linear arena, the alignment policy, the default (malloc)      *)
(* back end and its low-address page-mapping path, the allocator facade    *)
(* and the local tracker with its statistics.                              *)
(*                                                                         *)
(* The build modelled is the generic one of the source: not Android, not   *)
(* Windows, 64-bit pointers, MEMORY_TRACKER, MEMORY_STATISTICS and         *)
(* MEMORY_CONTEXT enabled, MEMORY_GUARD disabled. Where the source selects *)
(* a branch by platform inside one function (the page-mapping path, the    *)
(* back end's reallocate), the runs of that function take the platform as  *)
(* an input.                                                               *)
(***************************************************************************)
EXTENDS Integers, Sequences, FiniteSets, TLC

VARIABLES
    \* ---- memory-context stack of one thread (thread-local, memory.c:291)
    memory_context_depth,   \* foundation_config().memory_context_depth
    ctx_block,              \* get_thread_memory_context() is non-null
    ctx_depth,              \* context->depth
    ctx_context,            \* context->context[0 .. memory_context_depth-1]
    ctx_shadow,             \* history: the ids pushed and not yet popped
    ctx_peak,               \* history: the most ids ever outstanding on this block
    ctx_last,               \* history: the last call, the slot it touched, its result
    \* ---- the linear arena, _memory_temporary (memory.c:41-47, 59)
    temporary,              \* [storage, end, head, size, maxchunk]
    \* ---- threads inside memory_allocate's arena path (memory.c:250-258)
    ar_pc,                  \* per thread: "idle", "load", "cas" or "served"
    ar_req,                 \* per thread: the request [size, align]
    ar_old,                 \* per thread: old_head, as loaded at memory.c:122
    ar_p,                   \* per thread: the payload memory_allocate computed
    ar_wrapped,             \* history, per thread: the successful attempt wrapped
    ar_overtaken,           \* history, per thread: another thread's CAS succeeded
                            \* since this thread loaded head
    ar_calls,               \* history: the requests that entered the loop
    ar_taken,               \* history: the addresses handed out since the last
                            \* wrap-around of the head
    ar_twice,               \* history: those handed out more than once since
    \* ---- the memory system and the local tracker (memory.c:37-69, 807-809)
    memory_initialized,     \* _memory_initialized
    memory_tracker,         \* _memory_tracker, a table of hooks
    memory_tracker_preinit, \* _memory_tracker_preinit
    memory_tags,            \* _memory_tags, the address of the tag table or 0
    tags,                   \* the tag table: slot -> [address, size]
    memory_tag_next,        \* _memory_tag_next
    memory_tracker_initialized, \* _memory_tracker_initialized
    memory_stats,           \* _memory_stats, the four counters
    heap,                   \* the blocks the platform allocator has handed out
    log,                    \* the leak warnings logged, in order
    hooks,                  \* history: the tracker hooks called, in order, and the
                            \* tracker installed at each call
    released,               \* history: the pointers given to the back end's
                            \* deallocate, in order
    held,                   \* history: the payloads the caller holds
    calls,                  \* history: the number of allocate and reallocate calls
    inits,                  \* history: the number of _memory_initialize calls
    swaps,                  \* history: the number of memory_set_tracker calls
    last,                   \* history: the last call, its arguments and result
    \* ---- one 32BIT_ADDRESS call of _memory_allocate_malloc_raw in 64-bit
    \*      arithmetic (memory.c:471-556)
    map_pc,                 \* "mmap32", "retry", "hint", "finish" or "done"
    map_build,              \* "MAP_32BIT" when the platform defines it, else "hint"
    map_size,               \* the argument size
    map_align,              \* the argument align, as _memory_get_align gave it
    raw_memory,             \* the local raw_memory, a 64-bit word
    map_memory,             \* the value returned, a 64-bit word
    baseaddr,               \* the static baseaddr of the sliding-hint loop
    retried,                \* the local retried of the sliding-hint loop
    mappings,               \* the mappings the kernel holds: [addr, len]
    headers,                \* history: the addresses the header was written to
    \* ---- one memory_reallocate call through the default back end, on a
    \*      given build (memory.c:265-273, 624-732)
    re_pc,                  \* "call", "back end" or "returned"
    re_build,               \* the platform the source is compiled for
    re_raw_p,               \* the header word of p, 0 for a null p
    re_align,               \* the argument align
    re_answer,              \* what the platform's allocator answers, 0 for a failure
    re_memory,              \* the pointer the call has in hand, then returns
    re_panic,               \* log_panicf was called
    \* ---- one payload of the default back end, allocated, written by its
    \*      owner and reallocated, byte by byte (memory.c:441-556, 624-732)
    cp_pc,                  \* "start", "allocated", "written" or "reallocated"
    cp_mem,                 \* the bytes of the address space
    cp_len,                 \* the platform's length of the block of the payload
    cp_p,                   \* the payload, before the reallocate the old one
    cp_oldsize,             \* the size the payload was allocated with
    cp_size,                \* the size it was reallocated to
    cp_raw,                 \* history: the raw pointer of the block of the payload
    \* ---- threads that allocate and deallocate through the local tracker,
    \*      one atomic access at a time (memory.c:243-280, 867-936)
    tk_pc,                  \* per thread: the statement it is about to run
    tk_addr,                \* per thread: the payload, addr of track and untrack
    tk_size,                \* per thread: the size of the payload
    tk_tag,                 \* per thread: the local tag of track, itag of untrack
    tk_loop,                \* per thread: the local loop of track
    tk_iend,                \* per thread: the local iend of untrack
    tk_found,               \* per thread: the local tag of untrack
    tk_fsize,               \* per thread: the local size of untrack
    tk_pairs,               \* the pairs of calls the threads have started
    tk_live                 \* the payloads the platform's allocator has handed out

ctxVars == <<memory_context_depth, ctx_block, ctx_depth, ctx_context,
             ctx_shadow, ctx_peak, ctx_last>>

arenaVars == <<temporary>>

arThreadVars == <<ar_pc, ar_req, ar_old, ar_p, ar_wrapped, ar_overtaken, ar_calls,
                  ar_taken, ar_twice>>

facVars == <<memory_initialized, memory_tracker, memory_tracker_preinit,
             memory_tags, tags, memory_tag_next, memory_tracker_initialized,
             memory_stats, heap, log, hooks, released, held, calls, inits, swaps, last>>

mapVars == <<map_pc, map_build, map_size, map_align, raw_memory, map_memory,
             baseaddr, retried, mappings, headers>>

reVars == <<re_pc, re_build, re_raw_p, re_align, re_answer, re_memory,
            re_panic>>

cpVars == <<cp_pc, cp_mem, cp_len, cp_p, cp_oldsize, cp_size, cp_raw>>

tkVars == <<tk_pc, tk_addr, tk_size, tk_tag, tk_loop, tk_iend, tk_found,
            tk_fsize, tk_pairs, tk_live>>

moreVars == <<cpVars, tkVars>>

\* The variables of the runs that follow one call of the back end.
sideVars == <<mapVars, reVars, moreVars>>

vars == <<ctxVars, arenaVars, arThreadVars, facVars, sideVars>>

(***************************************************************************)
(* Bounds of the model.                                                    *)
(***************************************************************************)
MaxContextDepth == 3    \* memory_context_depth ranges over 1 .. MaxContextDepth
MaxCtxId        == 2    \* context ids range over 0 .. MaxCtxId
MaxOutstanding  == 4    \* at most this many pushes are outstanding

CtxIds == 0 .. MaxCtxId

NoSlot == -1            \* "no slot of context[] was touched"

ArenaSize       == 136  \* foundation_config().temporary_memory of the arena runs

FOUNDATION_SIZE_POINTER == 8    \* the 64-bit build (memory.c:443)
FOUNDATION_MAX_ALIGN    == 16   \* memory.c:88

(***************************************************************************)
(* Pointer and alignment arithmetic, memory.c:138-179.                     *)
(***************************************************************************)

\* a & b on naturals.
RECURSIVE BitAnd(_, _)
BitAnd(a, b) ==
    IF a = 0 \/ b = 0 THEN 0
    ELSE (a % 2) * (b % 2) + 2 * BitAnd(a \div 2, b \div 2)

\* math_align_poweroftwo(x): the smallest power of two that is >= x.
RECURSIVE PowerOfTwoFrom(_, _)
PowerOfTwoFrom(x, p) == IF p >= x THEN p ELSE PowerOfTwoFrom(x, 2 * p)

math_align_poweroftwo(x) == PowerOfTwoFrom(x, 1)

\* _memory_get_align, memory.c:138-156 (the generic branch, 151-154).
_memory_get_align(align) ==
    IF align < FOUNDATION_SIZE_POINTER
    THEN (IF align # 0 THEN FOUNDATION_SIZE_POINTER ELSE 0)
    ELSE LET a == math_align_poweroftwo(align)
         IN  IF a < FOUNDATION_MAX_ALIGN THEN a ELSE FOUNDATION_MAX_ALIGN

\* _memory_get_align_forced, memory.c:158-162.
_memory_get_align_forced(align) ==
    LET a == _memory_get_align(align)
    IN  IF a > FOUNDATION_SIZE_POINTER THEN a ELSE FOUNDATION_SIZE_POINTER

\* _memory_align_pointer, memory.c:164-179.
Mut_memory_align_pointer_none(p, align) == p

_memory_align_pointer(p, align) ==
    IF p = 0 \/ align = 0 THEN p
    ELSE LET mask == align - 1
         IN  IF BitAnd(p, mask) # 0
             THEN (p - BitAnd(p, mask)) + align    \* (address & ~mask) + align
             ELSE p

(***************************************************************************)
(* The linear arena, memory.c:91-136.                                      *)
(***************************************************************************)

\* The arena storage is a back-end block allocated with alignment 16
\* (memory.c:98).
ArenaStorage == 4 * FOUNDATION_MAX_ALIGN

NoArena == [storage |-> 0, end |-> 0, head |-> 0, size |-> 0, maxchunk |-> 0]

\* _atomic_allocate_initialize with the head at the storage address.
Mut_atomic_allocate_initialize_at_storage(storagesize, storage) ==
    IF storagesize = 0 THEN NoArena
    ELSE [storage  |-> storage,
          end      |-> storage + storagesize,
          size     |-> storagesize,
          maxchunk |-> storagesize \div 8,
          head     |-> storage]

\* _atomic_allocate_initialize, memory.c:91-105, given the storage block the
\* back end returned.
_atomic_allocate_initialize(storagesize, storage) ==
    IF storagesize = 0 THEN NoArena
    ELSE [storage  |-> storage,
          end      |-> storage + storagesize,
          size     |-> storagesize,
          maxchunk |-> storagesize \div 8,
          head     |-> storage + 8]

\* One pass of the loop of _atomic_allocate_linear, memory.c:122-131: from
\* the head loaded, the pointer to return and the head to install.
Mut_linear_attempt_nowrap(T, old_head, chunksize) ==
    [ret |-> old_head, new |-> old_head + chunksize, wrapped |-> FALSE]

linear_attempt(T, old_head, chunksize) ==
    LET new_head == old_head + chunksize
    IN  IF new_head > T.end
        THEN [ret     |-> T.storage + 8,
              new     |-> T.storage + 8 + chunksize,
              wrapped |-> TRUE]
        ELSE [ret |-> old_head, new |-> new_head, wrapped |-> FALSE]

\* memory_allocate's test for the arena path, memory.c:250-252.
Mut_arena_path_inclusive(T, size, align, hint) ==
    /\ T.storage # 0
    /\ "TEMPORARY" \in hint
    /\ size + _memory_get_align_forced(align) <= T.maxchunk

arena_path(T, size, align, hint) ==
    /\ T.storage # 0
    /\ "TEMPORARY" \in hint
    /\ size + _memory_get_align_forced(align) < T.maxchunk

(***************************************************************************)
(* Threads allocating from the arena concurrently: memory_allocate with    *)
(* the TEMPORARY hint, memory.c:250-258, the loop of                       *)
(* _atomic_allocate_linear taken one atomic access at a time.              *)
(***************************************************************************)
ArenaThreads == {"t1", "t2"}

ArenaAligns == {0, 9}

ArenaSizes == {0, 5}

MaxArenaCalls == 3      \* the requests of a run with finitely many requests

ArChunk(t) == ar_req[t].size + _memory_get_align_forced(ar_req[t].align)

\* atomic_cas_ptr(&head, new_head, old_head), memory.c:133: the exchange
\* happens when head still holds old_head.
Mut_cas_succeeds_on_new(head, new_head, old_head) == head = new_head

Mut_cas_succeeds_always(head, new_head, old_head) == TRUE

cas_succeeds(head, new_head, old_head) == head = old_head

\* The bytes [return_pointer, return_pointer + chunksize) handed out.
ChunkRange(return_pointer, chunksize) ==
    return_pointer .. return_pointer + chunksize - 1

\* memory.c:250-253: the request passes the test and enters the loop.
ArEnter(t) ==
    /\ ar_pc[t] = "idle"
    /\ \E size \in ArenaSizes, align \in ArenaAligns :
          /\ arena_path(temporary, size, align, {"TEMPORARY"})
          /\ ar_req' = [ar_req EXCEPT ![t] = [size |-> size, align |-> align]]
    /\ ar_pc' = [ar_pc EXCEPT ![t] = "load"]
    /\ UNCHANGED <<temporary, ar_old, ar_p, ar_wrapped, ar_overtaken, ar_taken,
                   ar_twice>>
    /\ UNCHANGED <<ctxVars, facVars, sideVars>>

\* A request of a run with any number of requests.
ArBegin(t) ==
    /\ ArEnter(t)
    /\ UNCHANGED ar_calls

\* A request of a run with at most MaxArenaCalls requests.
ArBeginCounted(t) ==
    /\ ar_calls < MaxArenaCalls
    /\ ArEnter(t)
    /\ ar_calls' = ar_calls + 1

\* memory.c:122: old_head = atomic_loadptr(&head).
ArLoad(t) ==
    /\ ar_pc[t] = "load"
    /\ ar_old' = [ar_old EXCEPT ![t] = temporary.head]
    /\ ar_pc'  = [ar_pc EXCEPT ![t] = "cas"]
    /\ ar_overtaken' = [ar_overtaken EXCEPT ![t] = FALSE]
    /\ UNCHANGED <<temporary, ar_req, ar_p, ar_wrapped, ar_calls, ar_taken,
                   ar_twice>>
    /\ UNCHANGED <<ctxVars, facVars, sideVars>>

\* memory.c:123-133 and 253: the pointers are computed from old_head and
\* the CAS is tried; on success the pointer returned is aligned.
ArCas(t) ==
    /\ ar_pc[t] = "cas"
    /\ LET a == linear_attempt(temporary, ar_old[t], ArChunk(t))
       IN  IF cas_succeeds(temporary.head, a.new, ar_old[t])
           THEN /\ temporary'  = [temporary EXCEPT !.head = a.new]
                /\ ar_p'       = [ar_p EXCEPT ![t] =
                                     _memory_align_pointer(a.ret,
                                         _memory_get_align_forced(ar_req[t].align))]
                /\ ar_wrapped' = [ar_wrapped EXCEPT ![t] = a.wrapped]
                /\ ar_pc'      = [ar_pc EXCEPT ![t] = "served"]
                /\ ar_taken'   = IF a.wrapped THEN ChunkRange(a.ret, ArChunk(t))
                                 ELSE ar_taken \cup ChunkRange(a.ret, ArChunk(t))
                /\ ar_twice'   = IF a.wrapped THEN {}
                                 ELSE ar_twice \cup
                                      (ar_taken \cap ChunkRange(a.ret, ArChunk(t)))
                /\ ar_overtaken' = [u \in ArenaThreads |->
                                       IF u # t /\ ar_pc[u] = "cas" THEN TRUE
                                       ELSE IF u = t THEN FALSE
                                       ELSE ar_overtaken[u]]
           ELSE /\ ar_pc'      = [ar_pc EXCEPT ![t] = "load"]
                /\ UNCHANGED <<temporary, ar_p, ar_wrapped, ar_overtaken,
                               ar_taken, ar_twice>>
    /\ ar_old' = [ar_old EXCEPT ![t] = 0]
    /\ UNCHANGED <<ar_req, ar_calls>>
    /\ UNCHANGED <<ctxVars, facVars, sideVars>>

\* memory.c:262: memory_allocate returns the payload.
ArReturn(t) ==
    /\ ar_pc[t] = "served"
    /\ ar_pc'      = [ar_pc EXCEPT ![t] = "idle"]
    /\ ar_req'     = [ar_req EXCEPT ![t] = [size |-> 0, align |-> 0]]
    /\ ar_p'       = [ar_p EXCEPT ![t] = 0]
    /\ ar_wrapped' = [ar_wrapped EXCEPT ![t] = FALSE]
    /\ UNCHANGED <<temporary, ar_old, ar_overtaken, ar_calls, ar_taken, ar_twice>>
    /\ UNCHANGED <<ctxVars, facVars, sideVars>>

ArThreadsIdle ==
    /\ ar_pc      = [t \in ArenaThreads |-> "idle"]
    /\ ar_req     = [t \in ArenaThreads |-> [size |-> 0, align |-> 0]]
    /\ ar_old     = [t \in ArenaThreads |-> 0]
    /\ ar_p       = [t \in ArenaThreads |-> 0]
    /\ ar_wrapped = [t \in ArenaThreads |-> FALSE]
    /\ ar_overtaken = [t \in ArenaThreads |-> FALSE]
    /\ ar_calls   = 0
    /\ ar_taken   = {}
    /\ ar_twice   = {}

(***************************************************************************)
(* The memory-context stack, memory.c:289-326.                             *)
(***************************************************************************)

\* memory_context(): the value returned (memory.c:317).
Mut_memory_context_result_top ==
    IF ctx_block /\ ctx_depth > 0 THEN ctx_context[ctx_depth] ELSE 0

memory_context_result ==
    IF ctx_block /\ ctx_depth > 0 THEN ctx_context[ctx_depth - 1] ELSE 0

\* The slot memory_context() reads, NoSlot when it reads none.
memory_context_slot ==
    IF ctx_block /\ ctx_depth > 0 THEN ctx_depth - 1 ELSE NoSlot

\* The depth after a push at depth d (memory.c:303-304).
Mut_push_depth_unbounded(d) == d + 1

push_depth(d) ==
    IF d < memory_context_depth - 1 THEN d + 1 ELSE d

\* memory_context_push(context_id), memory.c:293-305. A missing block is
\* allocated zero-initialized first, so depth = 0 and every slot is 0.
memory_context_push(context_id) ==
    LET d   == IF ctx_block THEN ctx_depth ELSE 0
        arr == IF ctx_block THEN ctx_context
                            ELSE [i \in 0 .. memory_context_depth - 1 |-> 0]
    IN  /\ Len(ctx_shadow) < MaxOutstanding
        /\ ctx_block'   = TRUE
        /\ ctx_context' = IF d \in DOMAIN arr THEN [arr EXCEPT ![d] = context_id]
                                              ELSE arr
        /\ ctx_depth'   = push_depth(d)
        /\ ctx_shadow'  = Append(ctx_shadow, context_id)
        /\ ctx_peak'    = IF Len(ctx_shadow) + 1 > ctx_peak THEN Len(ctx_shadow) + 1
                                                            ELSE ctx_peak
        /\ ctx_last'    = [op |-> "push", id |-> context_id, slot |-> d,
                           depth |-> d, context |-> arr, ret |-> 0]
        /\ UNCHANGED <<memory_context_depth, arenaVars, arThreadVars, facVars, sideVars>>

\* The depth after a pop at depth d (memory.c:310-311).
Mut_pop_depth_clear(d) == 0

pop_depth(d) ==
    IF d > 0 THEN d - 1 ELSE d

\* memory_context_pop(), memory.c:307-312.
memory_context_pop ==
    /\ ctx_depth'   = IF ctx_block THEN pop_depth(ctx_depth) ELSE ctx_depth
    /\ ctx_shadow'  = IF ctx_shadow = <<>> THEN ctx_shadow
                      ELSE SubSeq(ctx_shadow, 1, Len(ctx_shadow) - 1)
    /\ ctx_last'    = [op |-> "pop", id |-> 0, slot |-> NoSlot,
                       depth |-> ctx_depth, context |-> ctx_context, ret |-> 0]
    /\ UNCHANGED <<memory_context_depth, ctx_block, ctx_context, ctx_peak,
                   arenaVars, arThreadVars, facVars, sideVars>>

\* memory_context(), memory.c:314-318: a read; only the history records it.
memory_context ==
    /\ ctx_last' = [op |-> "current", id |-> 0, slot |-> memory_context_slot,
                    depth |-> ctx_depth, context |-> ctx_context,
                    ret |-> memory_context_result]
    /\ UNCHANGED <<memory_context_depth, ctx_block, ctx_depth, ctx_context,
                   ctx_shadow, ctx_peak, arenaVars, arThreadVars,
                   facVars, sideVars>>

\* memory_context_thread_finalize(), memory.c:320-326: the block is freed,
\* and with it every id that was outstanding.
memory_context_thread_finalize ==
    /\ ctx_block
    /\ ctx_block'   = FALSE
    /\ ctx_depth'   = 0
    /\ ctx_context' = [i \in 0 .. memory_context_depth - 1 |-> 0]
    /\ ctx_shadow'  = <<>>
    /\ ctx_peak'    = 0
    /\ ctx_last'    = [op |-> "thread_finalize", id |-> 0, slot |-> NoSlot,
                       depth |-> ctx_depth, context |-> ctx_context, ret |-> 0]
    /\ UNCHANGED <<memory_context_depth, arenaVars, arThreadVars, facVars, sideVars>>

CtxStart ==
    /\ memory_context_depth \in 1 .. MaxContextDepth
    /\ ctx_block   = FALSE
    /\ ctx_depth   = 0
    /\ ctx_context = [i \in 0 .. memory_context_depth - 1 |-> 0]
    /\ ctx_shadow  = <<>>
    /\ ctx_peak    = 0
    /\ ctx_last    = [op |-> "none", id |-> 0, slot |-> NoSlot, depth |-> 0,
                      context |-> [i \in 0 .. memory_context_depth - 1 |-> 0],
                      ret |-> 0]

CtxPush == \E id \in CtxIds : memory_context_push(id)

CtxNext ==
    \/ CtxPush
    \/ memory_context_pop
    \/ memory_context
    \/ memory_context_thread_finalize

(***************************************************************************)
(* The memory system as one value: the functions of memory.c below are     *)
(* operators from such a value (and the call's arguments) to the value     *)
(* after the call, so that a handler's nested calls compose.               *)
(***************************************************************************)
Cur ==
    [initialized  |-> memory_initialized,
     tracker      |-> memory_tracker,
     preinit      |-> memory_tracker_preinit,
     temporary    |-> temporary,
     tags_ptr     |-> memory_tags,
     tags         |-> tags,
     tag_next     |-> memory_tag_next,
     trk_init     |-> memory_tracker_initialized,
     stats        |-> memory_stats,
     heap         |-> heap,
     log          |-> log,
     hooks        |-> hooks,
     released     |-> released]

Becomes(M) ==
    /\ memory_initialized'         = M.initialized
    /\ memory_tracker'             = M.tracker
    /\ memory_tracker_preinit'     = M.preinit
    /\ temporary'                  = M.temporary
    /\ memory_tags'                = M.tags_ptr
    /\ tags'                       = M.tags
    /\ memory_tag_next'            = M.tag_next
    /\ memory_tracker_initialized' = M.trk_init
    /\ memory_stats'               = M.stats
    /\ heap'                       = M.heap
    /\ log'                        = M.log
    /\ hooks'                      = M.hooks
    /\ released'                   = M.released

Is(M) ==
    /\ memory_initialized         = M.initialized
    /\ memory_tracker             = M.tracker
    /\ memory_tracker_preinit     = M.preinit
    /\ temporary                  = M.temporary
    /\ memory_tags                = M.tags_ptr
    /\ tags                       = M.tags
    /\ memory_tag_next            = M.tag_next
    /\ memory_tracker_initialized = M.trk_init
    /\ memory_stats               = M.stats
    /\ heap                       = M.heap
    /\ log                        = M.log
    /\ hooks                      = M.hooks
    /\ released                   = M.released

(***************************************************************************)
(* Tracker tables, memory.c:37, 940-956. A hook is the name of the         *)
(* function installed in the slot, NullHook for a null slot.               *)
(***************************************************************************)
NullHook == "null"

_memory_no_tracker ==
    [track |-> NullHook, untrack |-> NullHook, initialize |-> NullHook,
     abort |-> NullHook, finalize |-> NullHook]

memory_tracker_local ==
    [track      |-> "_memory_tracker_track",
     untrack    |-> "_memory_tracker_untrack",
     initialize |-> "_memory_tracker_initialize",
     abort      |-> "_memory_tracker_cleanup",
     finalize   |-> "_memory_tracker_finalize"]

memory_tracker_none == _memory_no_tracker

Trackers == {memory_tracker_none, memory_tracker_local}

\* Tracker tables of the caller's own (memory_tracker_t, every hook
\* optional): one with every hook, one with the same track and untrack
\* hooks and no other hook.
user_tracker ==
    [track      |-> "user_track",
     untrack    |-> "user_untrack",
     initialize |-> "user_initialize",
     abort      |-> "user_abort",
     finalize   |-> "user_finalize"]

lean_tracker ==
    [track      |-> "user_track",
     untrack    |-> "user_untrack",
     initialize |-> NullHook,
     abort      |-> NullHook,
     finalize   |-> NullHook]

AnyTrackers == Trackers \cup {user_tracker, lean_tracker}

\* The call of a hook, as hooks records it.
HookCall(M, hook) == [hook |-> hook, installed |-> M.tracker]

memory_tracker_max == 2     \* foundation_config().memory_tracker_max

SizeofMemoryTag == 128      \* sizeof(memory_tag_t): 8 + 8 + 14 * 8

TagSlots == 0 .. memory_tracker_max - 1

ZeroTags == [i \in TagSlots |-> [address |-> 0, size |-> 0]]

ZeroStats ==
    [allocations_total |-> 0, allocations_current |-> 0,
     allocated_total |-> 0, allocated_current |-> 0]

(***************************************************************************)
(* The platform allocator: malloc, free, realloc, mmap and munmap. It is   *)
(* outside the repository; what it may answer is a choice of the model.    *)
(* A block is [raw, len, p, low]: the raw pointer, the bytes requested,    *)
(* the payload carved from it and whether it is a page mapping.            *)
(***************************************************************************)
MaxAllocCalls == 3      \* the caller makes at most this many allocate calls
MaxInits      == 1      \* the memory system is initialized at most this often
MaxSwaps      == 2      \* the caller calls memory_set_tracker at most this often

HeapStart == 3 * FOUNDATION_MAX_ALIGN

PageSize == 4096

LowPages == {PageSize * k : k \in 16 .. 16 + MaxAllocCalls + 1}

IsFree(M, a, len) ==
    \A b \in M.heap : a + len <= b.raw \/ b.raw + b.len <= a

MinOf(S) == CHOOSE x \in S : \A y \in S : x <= y

\* The first address >= a whose remainder modulo 16 is class (0 or 8).
UpToClass(a, class) ==
    LET r == (class + 16 - (a % 16)) % 16 IN a + r

\* The lowest free address of the heap for len bytes whose remainder
\* modulo 16 is class: the start of the heap or the end of a block.
FirstFit(M, len, class) ==
    LET C == {a \in {UpToClass(HeapStart, class)}
                     \cup {UpToClass(b.raw + b.len, class) : b \in M.heap} :
                 a < PageSize /\ IsFree(M, a, len)}
    IN  MinOf(C)

\* What malloc(len) may return on success: a free block, WORD-aligned, its
\* address modulo 16 one of Classes.
MallocChoices(M, len, Classes) ==
    {FirstFit(M, len, class) : class \in Classes}

\* What mmap(.., len, ..) may return on success: free pages.
MmapChoices(M, len) ==
    LET C == {a \in LowPages : IsFree(M, a, len)}
    IN  IF C = {} THEN {} ELSE {MinOf(C)}

BlockOf(M, p) == CHOOSE b \in M.heap : b.p = p

IsBlock(M, p) == \E b \in M.heap : b.p = p

(***************************************************************************)
(* The default back end, memory.c:368-757 (the generic 64-bit branches).   *)
(***************************************************************************)

\* _memory_allocate_malloc_raw, memory.c:441-556, given what malloc (or
\* mmap, for MEMORY_32BIT_ADDRESS) answered: raw, 0 for a failure.
_memory_allocate_malloc_raw(M, size, align, hint, raw) ==
    IF "32BIT_ADDRESS" \notin hint
    THEN LET allocate_size == size + align + FOUNDATION_SIZE_POINTER
             memory == _memory_align_pointer(raw + FOUNDATION_SIZE_POINTER, align)
         IN  IF raw # 0
             THEN [m |-> [M EXCEPT !.heap = @ \cup
                             {[raw |-> raw, len |-> allocate_size,
                               p |-> memory, low |-> FALSE]}],
                   p |-> memory]
             ELSE [m |-> M, p |-> 0]
    ELSE LET allocate_size == size + align + FOUNDATION_SIZE_POINTER * 2
             memory == _memory_align_pointer(raw + FOUNDATION_SIZE_POINTER * 2, align)
         IN  IF raw # 0
             THEN [m |-> [M EXCEPT !.heap = @ \cup
                             {[raw |-> raw, len |-> allocate_size,
                               p |-> memory, low |-> TRUE]}],
                   p |-> memory]
             ELSE [m |-> M, p |-> 0]

\* The size _memory_allocate_malloc_raw asks the platform for
\* (memory.c:452, 483).
RawRequest(size, align, hint) ==
    IF "32BIT_ADDRESS" \notin hint
    THEN size + _memory_get_align(align) + FOUNDATION_SIZE_POINTER
    ELSE size + _memory_get_align(align) + FOUNDATION_SIZE_POINTER * 2

\* What the platform may answer to the request on success.
RawChoices(M, size, align, hint, Classes) ==
    IF "32BIT_ADDRESS" \notin hint
    THEN MallocChoices(M, RawRequest(size, align, hint), Classes)
    ELSE MmapChoices(M, RawRequest(size, align, hint))

\* _memory_allocate_malloc, memory.c:562-571.
_memory_allocate_malloc(M, size, align, hint, raw) ==
    _memory_allocate_malloc_raw(M, size, _memory_get_align(align), hint, raw)

\* _memory_deallocate_malloc, memory.c:573-622: the raw pointer is read
\* from the header and given to free, or to munmap when its low bit is set.
_memory_deallocate_malloc(M, p) ==
    LET M1 == [M EXCEPT !.released = Append(@, p)]
    IN  IF p = 0 \/ ~IsBlock(M1, p) THEN M1
        ELSE [M1 EXCEPT !.heap = @ \ {BlockOf(M1, p)}]

\* (uintptr_t)a < 0xFFFFFFFFULL, memory.c:712, on the halves of a.
BelowFFFFFFFF(a) ==
    \/ a \div 65536 < 65535
    \/ (a \div 65536 = 65535 /\ a % 65536 < 65535)

\* _memory_reallocate_malloc, memory.c:624-732 (the branch at 694-718),
\* given what realloc, malloc or mmap answered (raw, never 0 here).
_memory_reallocate_malloc(M, p, size, align, oldsize, raw) ==
    LET a     == _memory_get_align(align)
        raw_p == IF p # 0 THEN BlockOf(M, p).raw ELSE 0
        low_p == IF p # 0 THEN BlockOf(M, p).low ELSE FALSE
    IN  IF a = 0 /\ raw_p # 0 /\ ~low_p
        THEN \* realloc(raw_p, size + WORD); the payload is raw_memory + WORD
             [m |-> [M EXCEPT !.heap = (@ \ {BlockOf(M, p)}) \cup
                        {[raw |-> raw, len |-> size + FOUNDATION_SIZE_POINTER,
                          p |-> raw + FOUNDATION_SIZE_POINTER, low |-> FALSE]}],
              p |-> raw + FOUNDATION_SIZE_POINTER]
        ELSE \* allocate, copy, free the old payload
             LET hint == IF raw_p # 0 /\ BelowFFFFFFFF(raw_p)
                         THEN {"32BIT_ADDRESS"} ELSE {}
                 r    == _memory_allocate_malloc_raw(M, size, a, hint, raw)
             IN  [m |-> _memory_deallocate_malloc(r.m, p), p |-> r.p]

\* What the platform may answer to _memory_reallocate_malloc on success.
ReallocChoices(M, p, size, align, Classes) ==
    LET a     == _memory_get_align(align)
        raw_p == IF p # 0 THEN BlockOf(M, p).raw ELSE 0
        low_p == IF p # 0 THEN BlockOf(M, p).low ELSE FALSE
        rest  == [M EXCEPT !.heap = @ \ {BlockOf(M, p)}]
    IN  IF a = 0 /\ raw_p # 0 /\ ~low_p
        THEN (IF IsFree(rest, raw_p, size + FOUNDATION_SIZE_POINTER)
              THEN {raw_p} ELSE {})
             \cup MallocChoices(M, size + FOUNDATION_SIZE_POINTER, Classes)
        ELSE IF raw_p # 0
             THEN MmapChoices(M, size + a + FOUNDATION_SIZE_POINTER * 2)
             ELSE MallocChoices(M, size + a + FOUNDATION_SIZE_POINTER, Classes)

(***************************************************************************)
(* The local tracker's track and untrack, memory.c:867-936, run by one     *)
(* thread with no other thread in the tracker.                             *)
(***************************************************************************)

\* One pass of the loop of _memory_tracker_track, memory.c:873-886, and the
\* passes after it: the cursor is fetched and incremented, brought back
\* below memory_tracker_max, and the slot is claimed if its address is 0.
RECURSIVE track_loop(_, _, _, _)
track_loop(M, addr, size, loop) ==
    LET fetched == M.tag_next
        tag     == IF fetched >= memory_tracker_max
                   THEN fetched % memory_tracker_max ELSE fetched
        M1      == [M EXCEPT !.tag_next = tag + 1]
        limit   == memory_tracker_max * 2
    IN  IF M.tags[tag].address = 0
        THEN [M1 EXCEPT !.tags[tag] = [address |-> addr, size |-> size]]
        ELSE IF loop + 1 < limit
             THEN track_loop(M1, addr, size, loop + 1)
             ELSE M1

\* The statistics of one tracked allocation, memory.c:893-898.
stats_add(stats, size) ==
    [allocations_total   |-> stats.allocations_total + 1,
     allocations_current |-> stats.allocations_current + 1,
     allocated_total     |-> stats.allocated_total + size,
     allocated_current   |-> stats.allocated_current + size]

\* The statistics of one untracked allocation, memory.c:928-931.
Mut_stats_sub_totals(stats, size) ==
    [allocations_total   |-> stats.allocations_total - 1,
     allocations_current |-> stats.allocations_current - 1,
     allocated_total     |-> stats.allocated_total - size,
     allocated_current   |-> stats.allocated_current - size]

stats_sub(stats, size) ==
    [stats EXCEPT !.allocations_current = @ - 1,
                  !.allocated_current   = @ - size]

\* _memory_tracker_track, memory.c:867-900.
Mut_memory_tracker_track_null(M, addr, size) ==
    IF M.trk_init
    THEN LET M1 == track_loop(M, addr, size, 0)
         IN  [M1 EXCEPT !.stats = stats_add(@, size)]
    ELSE M

_memory_tracker_track(M, addr, size) ==
    IF addr # 0 /\ M.trk_init
    THEN LET M1 == track_loop(M, addr, size, 0)
         IN  [M1 EXCEPT !.stats = stats_add(@, size)]
    ELSE M

\* The walk of _memory_tracker_untrack, memory.c:910-923, from slot itag:
\* the number of the slot holding addr plus one, 0 when the walk ends at
\* iend without a match.
RECURSIVE untrack_walk(_, _, _, _)
untrack_walk(M, addr, itag, iend) ==
    IF M.tags[itag].address = addr THEN itag + 1
    ELSE IF itag = iend THEN 0
    ELSE IF itag # 0 THEN untrack_walk(M, addr, itag - 1, iend)
    ELSE untrack_walk(M, addr, memory_tracker_max - 1, iend)

\* The test that guards the release of the slot found, memory.c:925.
untrack_releases(tag, size) == tag # 0 /\ size # 0

\* _memory_tracker_untrack, memory.c:902-936.
_memory_tracker_untrack(M, addr) ==
    LET found == addr # 0 /\ M.trk_init
        iend  == M.tag_next % memory_tracker_max
        itag  == IF iend # 0 THEN iend - 1 ELSE memory_tracker_max - 1
        tag   == IF found THEN untrack_walk(M, addr, itag, iend) ELSE 0
        size  == IF tag # 0 THEN M.tags[tag - 1].size ELSE 0
    IN  IF untrack_releases(tag, size)
        THEN [M EXCEPT !.tags[tag - 1].address = 0,
                       !.stats = stats_sub(@, size)]
        ELSE M

\* _memory_track and _memory_untrack, memory.c:787-797: the hooks of the
\* tracker installed.
_memory_track(M, addr, size) ==
    IF M.tracker.track = NullHook THEN M
    ELSE LET M1 == [M EXCEPT !.hooks = Append(@, HookCall(M, M.tracker.track))]
         IN  IF M.tracker.track = "_memory_tracker_track"
             THEN _memory_tracker_track(M1, addr, size)
             ELSE M1

_memory_untrack(M, addr) ==
    IF M.tracker.untrack = NullHook THEN M
    ELSE LET M1 == [M EXCEPT !.hooks = Append(@, HookCall(M, M.tracker.untrack))]
         IN  IF M.tracker.untrack = "_memory_tracker_untrack"
             THEN _memory_tracker_untrack(M1, addr)
             ELSE M1

(***************************************************************************)
(* The allocator facade, memory.c:247-287, run by one thread.              *)
(***************************************************************************)

\* The answer of malloc to an allocation the subsystem makes for itself
\* (the arena storage, the tag table).
InternalRaw(M, size, align) ==
    FirstFit(M, RawRequest(size, align, {}), 0)

\* memory_allocate, memory.c:247-263, given what the platform answers if
\* the back end is called. The result: the system after the call, the
\* payload, whether the arena served it, and what the back end did.
memory_allocate(M, size, align, hint, raw) ==
    LET arena    == arena_path(M.temporary, size, align, hint)
        tmpalign == _memory_get_align_forced(align)
        a        == linear_attempt(M.temporary, M.temporary.head, size + tmpalign)
        p_arena  == IF arena THEN _memory_align_pointer(a.ret, tmpalign) ELSE 0
        M1       == IF arena THEN [M EXCEPT !.temporary.head = a.new] ELSE M
        r        == IF p_arena # 0
                    THEN [m |-> M1, p |-> p_arena]
                    ELSE _memory_allocate_malloc(M1, size, align, hint, raw)
    IN  [m       |-> _memory_track(r.m, r.p, size),
         p       |-> r.p,
         arena   |-> p_arena # 0,
         backend |-> IF p_arena # 0 THEN "not called"
                     ELSE IF r.p = 0 THEN "null" ELSE "payload"]

\* The test of memory_deallocate, memory.c:277.
Mut_outside_arena_below_only(T, p) == p < T.storage

outside_arena(T, p) == p < T.storage \/ p >= T.end

\* memory_deallocate, memory.c:275-280.
memory_deallocate(M, p) ==
    LET M1 == IF outside_arena(M.temporary, p)
              THEN _memory_deallocate_malloc(M, p) ELSE M
    IN  _memory_untrack(M1, p)

\* memory_reallocate, memory.c:265-273.
memory_reallocate(M, p, size, align, oldsize, raw) ==
    LET M1 == _memory_untrack(M, p)
        r  == _memory_reallocate_malloc(M1, p, size, align, oldsize, raw)
    IN  [m |-> _memory_track(r.m, r.p, size), p |-> r.p]

\* memory_statistics, memory.c:282-287.
memory_statistics(M) == M.stats

(***************************************************************************)
(* The local tracker's life cycle, memory.c:811-865.                       *)
(***************************************************************************)

\* _memory_tracker_initialize, memory.c:811-827.
_memory_tracker_initialize(M) ==
    IF ~M.trk_init
    THEN LET size == SizeofMemoryTag * memory_tracker_max
             r    == memory_allocate(M, size, 16,
                         {"PERSISTENT", "ZERO_INITIALIZED"},
                         InternalRaw(M, size, 16))
         IN  [r.m EXCEPT !.tags_ptr = r.p,
                         !.tags     = ZeroTags,
                         !.stats    = stats_add(@, size),
                         !.trk_init = TRUE]
    ELSE M

\* _memory_tracker_cleanup that clears the flag and keeps the tag table.
Mut_memory_tracker_cleanup_keeps_table(M) ==
    [M EXCEPT !.trk_init = FALSE]

\* _memory_tracker_cleanup, memory.c:829-843.
_memory_tracker_cleanup(M) ==
    LET M1 == [M EXCEPT !.trk_init = FALSE]
    IN  IF M1.tags_ptr # 0
        THEN LET M2 == memory_deallocate(M1, M1.tags_ptr)
             IN  [M2 EXCEPT !.stats = stats_sub(@, SizeofMemoryTag * memory_tracker_max),
                            !.tags_ptr = 0,
                            !.tags = ZeroTags]
        ELSE M1

\* The warnings of the loop of _memory_tracker_finalize, memory.c:851-862,
\* from slot it on.
RECURSIVE leak_warnings(_, _)
leak_warnings(M, it) ==
    IF it >= memory_tracker_max THEN <<>>
    ELSE (IF M.tags[it].address # 0
          THEN <<[size |-> M.tags[it].size, addr |-> M.tags[it].address, tag |-> it]>>
          ELSE <<>>) \o leak_warnings(M, it + 1)

\* _memory_tracker_finalize, memory.c:845-865.
_memory_tracker_finalize(M) ==
    LET M1 == [M EXCEPT !.trk_init = FALSE]
        M2 == IF M1.tags_ptr # 0
              THEN [M1 EXCEPT !.log = @ \o leak_warnings(M1, 0)]
              ELSE M1
    IN  _memory_tracker_cleanup(M2)

\* A call through a hook slot of a tracker table; a null slot is skipped.
\* A hook of the caller's own does nothing to the memory system.
call_hook(M, hook) ==
    IF hook = NullHook THEN M
    ELSE LET M1 == [M EXCEPT !.hooks = Append(@, HookCall(M, hook))]
         IN  CASE hook = "_memory_tracker_initialize" -> _memory_tracker_initialize(M1)
               [] hook = "_memory_tracker_cleanup"    -> _memory_tracker_cleanup(M1)
               [] hook = "_memory_tracker_finalize"   -> _memory_tracker_finalize(M1)
               [] OTHER                               -> M1

(***************************************************************************)
(* memory_set_tracker and the life cycle of the memory system,             *)
(* memory.c:181-211, 761-785.                                              *)
(***************************************************************************)

\* memory_set_tracker with the new tracker installed before the hooks run.
Mut_memory_set_tracker_install_first(M, tracker) ==
    LET old == M.tracker
    IN  IF old.track = tracker.track /\ old.untrack = tracker.untrack
        THEN M
        ELSE LET M1 == [M EXCEPT !.tracker = IF M.initialized THEN tracker
                                            ELSE _memory_no_tracker]
                 M2 == call_hook(M1, old.abort)
                 M3 == call_hook(M2, old.finalize)
             IN  IF M3.initialized
                 THEN call_hook(M3, tracker.initialize)
                 ELSE [M3 EXCEPT !.preinit = tracker]

\* memory_set_tracker, memory.c:761-785.
memory_set_tracker(M, tracker) ==
    LET old == M.tracker
    IN  IF old.track = tracker.track /\ old.untrack = tracker.untrack
        THEN M
        ELSE LET M1 == [M EXCEPT !.tracker = _memory_no_tracker]
                 M2 == call_hook(M1, old.abort)
                 M3 == call_hook(M2, old.finalize)
             IN  IF M3.initialized
                 THEN [call_hook(M3, tracker.initialize) EXCEPT !.tracker = tracker]
                 ELSE [M3 EXCEPT !.preinit = tracker]

\* _atomic_allocate_initialize with its allocation, memory.c:91-105.
arena_create(M, storagesize) ==
    IF storagesize = 0
    THEN [M EXCEPT !.temporary = NoArena]
    ELSE LET r == memory_allocate(M, storagesize, 16, {"PERSISTENT"},
                                  InternalRaw(M, storagesize, 16))
         IN  [r.m EXCEPT !.temporary = _atomic_allocate_initialize(storagesize, r.p)]

\* _atomic_allocate_finalize, memory.c:107-113.
_atomic_allocate_finalize(M) ==
    LET storage == M.temporary.storage
        M1      == [M EXCEPT !.temporary = NoArena]
    IN  IF storage # 0 THEN memory_deallocate(M1, storage) ELSE M1

\* _memory_initialize with the default back end, whose initialize returns
\* 0, memory.c:181-196, 734-741.
_memory_initialize(M, temporary_memory) ==
    LET M1 == [M EXCEPT !.stats = ZeroStats, !.initialized = TRUE]
        M2 == arena_create(M1, temporary_memory)
    IN  IF M2.preinit.initialize # NullHook
        THEN memory_set_tracker(M2, M2.preinit)
        ELSE M2

\* _memory_finalize, memory.c:198-211; the default back end has no
\* thread_finalize and an empty finalize.
_memory_finalize(M) ==
    LET M1 == [M EXCEPT !.preinit = M.tracker]
        M2 == call_hook(M1, M1.tracker.finalize)
        M3 == _atomic_allocate_finalize(M2)
        M4 == memory_set_tracker(M3, _memory_no_tracker)
    IN  [M4 EXCEPT !.initialized = FALSE]

\* The process at start: every static of memory.c is zero.
Boot ==
    [initialized  |-> FALSE,
     tracker      |-> _memory_no_tracker,
     preinit      |-> _memory_no_tracker,
     temporary    |-> NoArena,
     tags_ptr     |-> 0,
     tags         |-> ZeroTags,
     tag_next     |-> 0,
     trk_init     |-> FALSE,
     stats        |-> ZeroStats,
     heap         |-> {},
     log          |-> <<>>,
     hooks        |-> <<>>,
     released     |-> <<>>]

(***************************************************************************)
(* The calls of a single-threaded caller, each one a whole handler.        *)
(***************************************************************************)
\* The arguments of the caller of the tracker runs.
UserSizes == {0, FOUNDATION_SIZE_POINTER, 3 * FOUNDATION_SIZE_POINTER}

UserAligns == {0}

ReallocAligns == {0, FOUNDATION_MAX_ALIGN}

UserHints == {{}, {"TEMPORARY"}}

UserClasses == {0}          \* malloc answers 16-aligned blocks

\* The arguments of the caller of the allocation runs; the third size makes
\* size + forced_align(align) = maxchunk for an alignment up to WORD.
AnySizes ==
    {0, FOUNDATION_SIZE_POINTER,
     ArenaSize \div 8 - FOUNDATION_SIZE_POINTER, 3 * FOUNDATION_SIZE_POINTER}

AnyAligns == {0, 3, 8, 16, 24}

AnyHints == {{}, {"TEMPORARY"}, {"32BIT_ADDRESS"}}

AnyClasses == {0, FOUNDATION_SIZE_POINTER}

TemporaryMemoryChoices == {0, ArenaSize}

LocalActive(M) == M.tracker = memory_tracker_local /\ M.trk_init

Occupied(M) == Cardinality({i \in TagSlots : M.tags[i].address # 0})

NoLast ==
    [op |-> "none", p |-> 0, size |-> 0, align |-> 0, hint |-> {},
     arena |-> FALSE, pre |-> ZeroStats, pre_alloc |-> ZeroStats,
     paired |-> FALSE, local |-> FALSE, occ |-> 0, backend |-> "not called",
     tracker |-> _memory_no_tracker, installed |-> _memory_no_tracker,
     initialized |-> FALSE]

\* The state a call starts from: the log holds the warnings of one call,
\* and hooks and released the hook calls and the releases of one call.
Start == [Cur EXCEPT !.log = <<>>, !.hooks = <<>>, !.released = <<>>]

Untracked(H) == {[h EXCEPT !.tracked = FALSE] : h \in H}

\* The payloads held that the local tracker was given to track.
Live(H) == {h \in H : h.tracked}

\* One more live payload keeps the live payloads fewer than the slots.
Room(H) == Cardinality(Live(H)) + 1 < memory_tracker_max

\* _memory_initialize(memory_system_malloc()), memory.c:181-196.
Initialize(Max) ==
    /\ ~memory_initialized
    /\ inits < Max
    /\ inits' = inits + 1
    /\ \E temporary_memory \in TemporaryMemoryChoices :
          Becomes(_memory_initialize(Start, temporary_memory))
    /\ held' = Untracked(held)
    /\ last' = [NoLast EXCEPT !.op = "initialize", !.pre = memory_stats,
                              !.tracker = memory_tracker_preinit,
                              !.installed = memory_tracker]
    /\ UNCHANGED <<calls, swaps, ctxVars, arThreadVars, sideVars>>

\* The caller of the tracker runs initializes the memory system.
FacInitialize == Initialize(MaxInits)

\* The caller of the life-cycle runs initializes it once more.
FacInitializeAgain == Initialize(MaxInits + 1)

\* _memory_finalize(), memory.c:198-211.
FacFinalize ==
    /\ memory_initialized
    /\ Becomes(_memory_finalize(Start))
    /\ last' = [NoLast EXCEPT !.op = "finalize", !.pre = memory_stats,
                              !.local = LocalActive(Start),
                              !.occ = Occupied(Start),
                              !.installed = memory_tracker,
                              !.initialized = memory_initialized]
    /\ UNCHANGED <<held, calls, inits, swaps, ctxVars, arThreadVars, sideVars>>

\* memory_set_tracker(tracker), memory.c:761-785.
Swap(TrackerSet) ==
    /\ swaps < MaxSwaps
    /\ swaps' = swaps + 1
    /\ \E tracker \in TrackerSet :
          LET M == memory_set_tracker(Start, tracker)
          IN  /\ Becomes(M)
              /\ held' = IF M = Start THEN held ELSE Untracked(held)
              /\ last' = [NoLast EXCEPT !.op = "set_tracker",
                                        !.pre = memory_stats,
                                        !.local = LocalActive(Start),
                                        !.tracker = tracker,
                                        !.installed = memory_tracker,
                                        !.initialized = memory_initialized]
    /\ UNCHANGED <<calls, inits, ctxVars, arThreadVars, sideVars>>

\* The caller of the tracker runs chooses between no tracker and the local
\* one.
FacSetTracker == Swap(Trackers)

\* The caller of the life-cycle runs also installs trackers of its own.
FacSetTrackerAny == Swap(AnyTrackers)

\* memory_allocate(0, size, align, hint), memory.c:247-263, the arguments
\* drawn from the given sets.
Allocate(Sizes, Aligns, Hints, Classes) ==
    /\ memory_initialized
    /\ \E size \in Sizes, align \in Aligns, hint \in Hints :
          \E raw \in (IF arena_path(temporary, size, align, hint) THEN {0}
                      ELSE RawChoices(Start, size, align, hint, Classes) \cup {0}) :
              LET r == memory_allocate(Start, size, align, hint, raw)
              IN  /\ Becomes(r.m)
                  /\ held' = IF r.p = 0 THEN held
                             ELSE held \cup {[p |-> r.p, size |-> size,
                                              arena |-> r.arena,
                                              tracked |-> LocalActive(Start),
                                              room |-> Room(held)]}
                  /\ last' = [NoLast EXCEPT !.op = "allocate", !.p = r.p,
                                 !.size = size, !.align = align, !.hint = hint,
                                 !.arena = r.arena, !.backend = r.backend,
                                 !.pre = memory_stats,
                                 !.local = LocalActive(Start),
                                 !.occ = Occupied(Start)]
    /\ UNCHANGED <<inits, swaps, ctxVars, arThreadVars, sideVars>>

\* The caller of the tracker runs allocates, at most MaxAllocCalls times.
FacAllocate ==
    /\ calls < MaxAllocCalls
    /\ Allocate(UserSizes, UserAligns, UserHints, UserClasses)
    /\ calls' = calls + 1

\* The caller of the allocation runs allocates while it holds nothing.
FacAllocateAny ==
    /\ held = {}
    /\ Allocate(AnySizes, AnyAligns, AnyHints, AnyClasses)
    /\ UNCHANGED calls

\* memory_tracker_local().abort(), memory.c:829-843, 945: the abort hook of
\* the local tracker, called on its own.
FacAbort ==
    /\ Becomes(call_hook(Start, memory_tracker_local.abort))
    /\ held' = Untracked(held)
    /\ last' = [NoLast EXCEPT !.op = "abort", !.pre = memory_stats,
                              !.local = LocalActive(Start),
                              !.occ = Occupied(Start),
                              !.installed = memory_tracker,
                              !.initialized = memory_initialized]
    /\ UNCHANGED <<calls, inits, swaps, ctxVars, arThreadVars, sideVars>>

\* The caller of the life-cycle runs allocates one word while it holds
\* nothing, at most MaxAllocCalls times.
FacAllocateWord ==
    /\ held = {}
    /\ calls < MaxAllocCalls
    /\ Allocate({FOUNDATION_SIZE_POINTER}, {0}, {{}}, {0})
    /\ calls' = calls + 1

\* memory_deallocate(p) of a payload the caller holds, memory.c:275-280.
FacDeallocate ==
    /\ memory_initialized
    /\ \E h \in held :
          /\ Becomes(memory_deallocate(Start, h.p))
          /\ held' = held \ {h}
          /\ last' = [NoLast EXCEPT !.op = "deallocate", !.p = h.p,
                         !.size = h.size, !.arena = h.arena,
                         !.pre = memory_stats,
                         !.pre_alloc = last.pre,
                         !.paired = (last.op = "allocate" /\ last.p = h.p),
                         !.local = LocalActive(Start),
                         !.occ = last.occ]
    /\ UNCHANGED <<calls, inits, swaps, ctxVars, arThreadVars, sideVars>>

\* memory_reallocate(p, size, align, oldsize) of a back-end payload the
\* caller holds, memory.c:265-273.
FacReallocate ==
    /\ memory_initialized
    /\ calls < MaxAllocCalls
    /\ \E h \in held, size \in UserSizes, align \in ReallocAligns :
          /\ ~h.arena
          /\ \E raw \in ReallocChoices(Start, h.p, size, align, UserClasses) :
                LET r == memory_reallocate(Start, h.p, size, align, h.size, raw)
                IN  /\ Becomes(r.m)
                    /\ held' = (held \ {h}) \cup
                                  {[p |-> r.p, size |-> size, arena |-> FALSE,
                                    tracked |-> LocalActive(Start),
                                    room |-> Room(held \ {h})]}
                    /\ last' = [NoLast EXCEPT !.op = "reallocate", !.p = r.p,
                                   !.size = size, !.align = align,
                                   !.pre = memory_stats,
                                   !.local = LocalActive(Start),
                                   !.occ = Occupied(Start)]
    /\ calls' = calls + 1
    /\ UNCHANGED <<inits, swaps, ctxVars, arThreadVars, sideVars>>

\* The memory system at a given value, the caller holding nothing.
FacAt(M) ==
    /\ Is(M)
    /\ held  = {}
    /\ calls = 0
    /\ inits = IF M.initialized THEN 1 ELSE 0
    /\ swaps = 0
    /\ last  = NoLast

(***************************************************************************)
(* 64-bit words. A word is <<l0, l1, l2, l3>>, four 16-bit limbs, least    *)
(* significant first; the arithmetic is uintptr_t's, modulo 2^64.          *)
(***************************************************************************)
Limb == 65536

W64(n) == <<n % Limb, (n \div Limb) % Limb, 0, 0>>

Zero64 == W64(0)

W64Add(a, b) ==
    LET s0 == a[1] + b[1]
        s1 == a[2] + b[2] + s0 \div Limb
        s2 == a[3] + b[3] + s1 \div Limb
        s3 == a[4] + b[4] + s2 \div Limb
    IN  <<s0 % Limb, s1 % Limb, s2 % Limb, s3 % Limb>>

W64Less(a, b) ==
    \/ a[4] < b[4]
    \/ a[4] = b[4] /\ a[3] < b[3]
    \/ a[4] = b[4] /\ a[3] = b[3] /\ a[2] < b[2]
    \/ a[4] = b[4] /\ a[3] = b[3] /\ a[2] = b[2] /\ a[1] < b[1]

W64LessEq(a, b) == a = b \/ W64Less(a, b)

\* _memory_align_pointer, memory.c:164-179, on a 64-bit word; align is 0 or
\* a power of two no larger than a limb.
_memory_align_pointer64(p, align) ==
    IF p = Zero64 \/ align = 0 THEN p
    ELSE IF p[1] % align # 0
         THEN W64Add([p EXCEPT ![1] = @ - (@ % align)], W64(align))
         ELSE p

(***************************************************************************)
(* _memory_allocate_malloc_raw with MEMORY_32BIT_ADDRESS on a 64-bit POSIX *)
(* platform, memory.c:471-556, step by step, with what mmap may answer.    *)
(***************************************************************************)
MAP_FAILED == <<Limb - 1, Limb - 1, Limb - 1, Limb - 1>>    \* (void*)-1

MMAP_REGION_START == <<0, 1, 0, 0>>             \* 0x10000

MMAP_REGION_END == <<0, Limb \div 2, 0, 0>>     \* 0x80000000

Max32 == <<Limb - 1, Limb - 1, 0, 0>>           \* 0xFFFFFFFF

TwoTo32 == <<0, 0, 1, 0>>                       \* 0x100000000

\* The arguments of the call.
MapSizes == {FOUNDATION_SIZE_POINTER, PageSize, 2 * PageSize}

MapAligns == {0, FOUNDATION_SIZE_POINTER, FOUNDATION_MAX_ALIGN}

MapBuilds == {"MAP_32BIT", "hint"}

\* What mmap with MAP_32BIT may answer: pages in the first 2 GiB, or
\* MAP_FAILED.
Answers32 ==
    {MAP_FAILED,
     <<0, Limb \div 4, 0, 0>>}                  \* 0x40000000

\* What mmap without MAP_32BIT may answer: pages anywhere in the address
\* space of the process, or MAP_FAILED.
AnswersAny ==
    {MAP_FAILED,
     <<0, 1, 0, 0>>,                            \* 0x10000
     <<Limb - PageSize, Limb \div 2 - 1, 0, 0>>,    \* 0x7FFFF000
     <<Limb - PageSize, Limb - 1, 0, 0>>,       \* 0xFFFFF000
     <<0, 0, 1, 0>>,                            \* 0x100000000
     <<0, 0, 0, 1>>}                            \* 0x1000000000000

\* allocate_size, memory.c:483.
allocate_size64 == map_size + map_align + FOUNDATION_SIZE_POINTER * 2

Mapped(ans) ==
    IF ans = MAP_FAILED THEN mappings
    ELSE mappings \cup {[addr |-> ans, len |-> allocate_size64]}

Unmapped(M, addr) == {m \in M : m.addr # addr}

\* The first mmap of the MAP_32BIT build, memory.c:522-524.
MapFirst32 ==
    /\ map_pc = "mmap32"
    /\ \E ans \in Answers32 :
          /\ raw_memory' = ans
          /\ mappings' = Mapped(ans)
          /\ map_pc' = IF ans = MAP_FAILED THEN "retry" ELSE "finish"
    /\ UNCHANGED <<map_build, map_size, map_align, map_memory, baseaddr,
                   retried, headers>>
    /\ UNCHANGED <<ctxVars, arenaVars, arThreadVars, facVars, reVars, moreVars>>

\* The test of the second mmap's answer, memory.c:529.
above_max32(raw) == W64Less(Max32, raw)

\* The second mmap of the MAP_32BIT build and the tests of its answer,
\* memory.c:525-534.
MapRetry32 ==
    /\ map_pc = "retry"
    /\ \E ans \in AnswersAny :
          LET raw == IF ans = MAP_FAILED THEN Zero64 ELSE ans
          IN  IF above_max32(raw)
              THEN /\ raw_memory' = Zero64
                   /\ mappings' = Unmapped(Mapped(ans), raw)
              ELSE /\ raw_memory' = raw
                   /\ mappings' = Mapped(ans)
    /\ map_pc' = "finish"
    /\ UNCHANGED <<map_build, map_size, map_align, map_memory, baseaddr,
                   retried, headers>>
    /\ UNCHANGED <<ctxVars, arenaVars, arThreadVars, facVars, reVars, moreVars>>

\* One pass of the sliding-hint loop of the build without MAP_32BIT,
\* memory.c:503-519.
MapHint ==
    /\ map_pc = "hint"
    /\ \E ans \in AnswersAny :
          IF /\ W64LessEq(MMAP_REGION_START, ans)
             /\ W64Less(W64Add(ans, W64(allocate_size64)), MMAP_REGION_END)
          THEN /\ raw_memory' = ans
               /\ mappings' = Mapped(ans)
               /\ baseaddr' = W64Add(ans, W64(allocate_size64))
               /\ map_pc' = "finish"
               /\ UNCHANGED retried
          ELSE /\ raw_memory' = Zero64
               /\ mappings' = IF ans # Zero64 /\ ans # MAP_FAILED
                              THEN Unmapped(Mapped(ans), ans) ELSE Mapped(ans)
               /\ IF retried
                  THEN /\ map_pc' = "finish"
                       /\ UNCHANGED <<retried, baseaddr>>
                  ELSE /\ retried' = TRUE
                       /\ baseaddr' = MMAP_REGION_START
                       /\ map_pc' = "hint"
    /\ UNCHANGED <<map_build, map_size, map_align, map_memory, headers>>
    /\ UNCHANGED <<ctxVars, arenaVars, arThreadVars, facVars, reVars, moreVars>>

\* The end of the call, memory.c:536-555: null is returned for a null
\* raw_memory, else the payload is aligned past two words and the header,
\* the raw pointer and the size, is written in the two words below it.
MapFinish ==
    /\ map_pc = "finish"
    /\ IF raw_memory = Zero64
       THEN /\ map_memory' = Zero64
            /\ UNCHANGED headers
       ELSE LET m == _memory_align_pointer64(
                         W64Add(raw_memory, W64(FOUNDATION_SIZE_POINTER * 2)),
                         map_align)
            IN  /\ map_memory' = m
                /\ headers' = headers \cup {[at |-> m, raw |-> raw_memory]}
    /\ map_pc' = "done"
    /\ UNCHANGED <<map_build, map_size, map_align, raw_memory, baseaddr,
                   retried, mappings>>
    /\ UNCHANGED <<ctxVars, arenaVars, arThreadVars, facVars, reVars, moreVars>>

\* No 32BIT_ADDRESS call is in progress.
MapIdle ==
    /\ map_pc = "done"
    /\ map_build = "MAP_32BIT"
    /\ map_size = 0
    /\ map_align = 0
    /\ raw_memory = Zero64
    /\ map_memory = Zero64
    /\ baseaddr = MMAP_REGION_START
    /\ retried = FALSE
    /\ mappings = {}
    /\ headers = {}

\* A 32BIT_ADDRESS call enters _memory_allocate_malloc_raw.
MapStart ==
    /\ map_build \in MapBuilds
    /\ map_pc = IF map_build = "MAP_32BIT" THEN "mmap32" ELSE "hint"
    /\ map_size \in MapSizes
    /\ map_align \in MapAligns
    /\ raw_memory = Zero64
    /\ map_memory = Zero64
    /\ baseaddr = MMAP_REGION_START
    /\ retried = FALSE
    /\ mappings = {}
    /\ headers = {}

(***************************************************************************)
(* memory_reallocate through _memory_reallocate_malloc, memory.c:265-273   *)
(* and 624-732, on each build the source selects a branch for, with what   *)
(* the platform's allocator answers. Pointers are small numbers; a header  *)
(* word with bit 0 set marks a block of the page-mapping path.             *)
(***************************************************************************)
ReBuilds == {"posix64", "arm64", "windows64", "windows32"}

ReRawPs == {0, 4 * FOUNDATION_MAX_ALIGN, 4 * FOUNDATION_MAX_ALIGN + 1}

ReAnswers == {0, 8 * FOUNDATION_MAX_ALIGN}

ReSize == FOUNDATION_MAX_ALIGN

\* _memory_get_align as compiled for Windows, memory.c:146-150.
_memory_get_align_windows(align) ==
    IF align < FOUNDATION_SIZE_POINTER THEN FOUNDATION_SIZE_POINTER
    ELSE LET a == math_align_poweroftwo(align)
         IN  IF a < FOUNDATION_MAX_ALIGN THEN a ELSE FOUNDATION_MAX_ALIGN

\* The padding of the Windows branches, memory.c:394, 661.
padding(a) == IF a > FOUNDATION_SIZE_POINTER THEN a ELSE FOUNDATION_SIZE_POINTER

\* The payload _memory_allocate_malloc_raw makes of the block answered,
\* memory.c:394-400, 431, 453, 545 (0 for a failure).
raw_payload(build, a, low, answer) ==
    IF answer = 0 THEN 0
    ELSE IF build = "windows64"
         THEN (IF low
               THEN _memory_align_pointer(answer + FOUNDATION_SIZE_POINTER, a)
               ELSE answer + padding(a))
         ELSE _memory_align_pointer(
                  answer + (IF low THEN FOUNDATION_SIZE_POINTER * 2
                            ELSE FOUNDATION_SIZE_POINTER), a)

\* The test and the call of log_panicf that end the function, memory.c:722.
raises_panic(memory) == memory = 0

\* _memory_reallocate_malloc, memory.c:624-732, as compiled for build: the
\* pointer it returns and whether it called log_panicf.
_memory_reallocate_malloc_on(build, raw_p, size, align, answer) ==
    IF build = "windows32"
    THEN \* memory.c:626-642: return _aligned_realloc(p, size, align)
         [memory |-> answer, panic |-> FALSE]
    ELSE LET a       == IF build = "windows64"
                        THEN _memory_get_align_windows(align)
                        ELSE _memory_get_align(align)
             plain   == raw_p # 0 /\ raw_p % 2 = 0
             inplace == CASE build = "windows64" -> plain
                          [] build = "posix64"   -> a = 0 /\ plain
                          [] OTHER               -> FALSE
             low     == raw_p # 0 /\ BelowFFFFFFFF(raw_p)
             memory  == IF inplace
                        THEN (IF answer = 0 THEN 0
                              ELSE IF build = "windows64"
                                   THEN answer + padding(a)
                                   ELSE answer + FOUNDATION_SIZE_POINTER)
                        ELSE raw_payload(build, a, low, answer)
         IN  [memory |-> memory, panic |-> raises_panic(memory)]

\* The call of the back end in memory_reallocate, memory.c:270.
ReBackEnd ==
    /\ re_pc = "call"
    /\ LET r == _memory_reallocate_malloc_on(re_build, re_raw_p, ReSize,
                                             re_align, re_answer)
       IN  /\ re_memory' = r.memory
           /\ re_panic' = r.panic
    /\ re_pc' = "back end"
    /\ UNCHANGED <<re_build, re_raw_p, re_align, re_answer>>
    /\ UNCHANGED <<ctxVars, arenaVars, arThreadVars, facVars, mapVars, moreVars>>

\* The end of memory_reallocate, memory.c:271-272: no tracker is installed,
\* and the pointer of the back end is returned.
ReReturn ==
    /\ re_pc = "back end"
    /\ re_pc' = "returned"
    /\ UNCHANGED <<re_build, re_raw_p, re_align, re_answer, re_memory,
                   re_panic>>
    /\ UNCHANGED <<ctxVars, arenaVars, arThreadVars, facVars, mapVars, moreVars>>

\* No memory_reallocate call of these runs is in progress.
ReIdle ==
    /\ re_pc = "returned"
    /\ re_build = "posix64"
    /\ re_raw_p = 0
    /\ re_align = 0
    /\ re_answer = 0
    /\ re_memory = 0
    /\ re_panic = FALSE

\* memory_reallocate(p, ReSize, align, oldsize) is entered.
ReStart ==
    /\ re_pc = "call"
    /\ re_build \in ReBuilds
    /\ re_raw_p \in ReRawPs
    /\ re_align \in ReallocAligns
    /\ re_answer \in ReAnswers
    /\ re_memory = 0
    /\ re_panic = FALSE

(***************************************************************************)
(* The bytes of a payload through memory_reallocate, memory.c:441-470 and  *)
(* 624-732 as compiled for 64-bit POSIX (not ARM, no memory guard). The    *)
(* address space is an array of bytes; a byte is <<kind, value, index>>:   *)
(* byte index of the word value, a byte its owner wrote, or a byte nobody  *)
(* wrote. All addresses are below 2^32.                                    *)
(***************************************************************************)
CopySpace == 192        \* the addresses of these runs are 0 .. CopySpace - 1

CopySizes == {0, 3, 12}

CopyAligns == {0, 8, 16}

CopyHints == {{}, {"32BIT_ADDRESS"}}

\* What malloc, realloc and mmap may answer: a first block at an address
\* 0 or 8 modulo 16, or a page; a second one above it.
CopyMallocFirst == {32, 40}

CopyMmapFirst == {64}

CopyMallocSecond == {128, 136}

CopyMmapSecond == {128}

Junk == <<"junk", 0, 0>>

DataByte(i) == <<"data", i, 0>>

WordByte(v, k) == <<"word", v, k>>

NoBytes == [a \in 0 .. CopySpace - 1 |-> Junk]

\* *((uintptr_t*)at) = v.
store_word(mem, at, v) ==
    [a \in DOMAIN mem |->
        IF at <= a /\ a < at + FOUNDATION_SIZE_POINTER
        THEN WordByte(v, a - at) ELSE mem[a]]

\* *((uintptr_t*)at), -1 when the eight bytes are not those of one word.
load_word(mem, at) ==
    IF \A k \in 0 .. FOUNDATION_SIZE_POINTER - 1 :
           mem[at + k] = WordByte(mem[at][2], k)
    THEN mem[at][2] ELSE -1

\* The bytes after free or munmap of the block [raw, raw + len).
released_bytes(mem, raw, len) ==
    [a \in DOMAIN mem |-> IF raw <= a /\ a < raw + len THEN Junk ELSE mem[a]]

\* memcpy(dst, src, n).
memcpy(mem, dst, src, n) ==
    [a \in DOMAIN mem |->
        IF dst <= a /\ a < dst + n THEN mem[src + (a - dst)] ELSE mem[a]]

\* realloc(raw, len) of the block [raw, raw + oldlen) answered at: the
\* first min(oldlen, len) bytes are kept, the old block is released when
\* the block moved.
realloc(mem, raw, oldlen, at, len) ==
    LET keep == IF oldlen < len THEN oldlen ELSE len
    IN  [a \in DOMAIN mem |->
            IF at <= a /\ a < at + keep THEN mem[raw + (a - at)]
            ELSE IF at <= a /\ a < at + len THEN Junk
            ELSE IF raw <= a /\ a < raw + oldlen THEN Junk
            ELSE mem[a]]

\* _memory_allocate_malloc_raw on the bytes, memory.c:441-556, given the
\* block malloc or mmap answered at raw: the header is written below the
\* payload.
allocate_raw_bytes(mem, size, align, hint, raw) ==
    IF "32BIT_ADDRESS" \notin hint
    THEN LET allocate_size == size + align + FOUNDATION_SIZE_POINTER
             memory == _memory_align_pointer(raw + FOUNDATION_SIZE_POINTER, align)
         IN  [mem    |-> store_word(mem, memory - FOUNDATION_SIZE_POINTER, raw),
              memory |-> memory,
              len    |-> allocate_size]
    ELSE LET allocate_size == size + align + FOUNDATION_SIZE_POINTER * 2
             memory == _memory_align_pointer(raw + FOUNDATION_SIZE_POINTER * 2, align)
             mem1   == store_word(mem, memory - FOUNDATION_SIZE_POINTER, raw + 1)
         IN  [mem    |-> store_word(mem1, memory - FOUNDATION_SIZE_POINTER * 2,
                                    allocate_size),
              memory |-> memory,
              len    |-> allocate_size]

\* The in-place branch of _memory_reallocate_malloc, memory.c:694-700:
\* realloc(raw_p, size + WORD) answered at.
inplace(mem, p, raw_p, oldlen, size, at) ==
    LET mem1 == realloc(mem, raw_p, oldlen, at, size + FOUNDATION_SIZE_POINTER)
        mem2 == store_word(mem1, at, at)
    IN  [mem |-> mem2, memory |-> at + FOUNDATION_SIZE_POINTER,
         len |-> size + FOUNDATION_SIZE_POINTER]

\* The branch taken by _memory_reallocate_malloc, memory.c:694.
takes_inplace(a, raw_p) == a = 0 /\ raw_p # 0 /\ raw_p % 2 = 0

\* _memory_reallocate_malloc on the bytes, memory.c:644-650, 694-731, for a
\* payload p and a platform that answers at (never a failure here).
reallocate_bytes(mem, p, oldlen, size, align, oldsize, at) ==
    LET a     == _memory_get_align(align)
        raw_p == load_word(mem, p - FOUNDATION_SIZE_POINTER)
    IN  IF takes_inplace(a, raw_p)
        THEN inplace(mem, p, raw_p, oldlen, size, at)
        ELSE LET hint == IF raw_p # 0 /\ BelowFFFFFFFF(raw_p)
                         THEN {"32BIT_ADDRESS"} ELSE {}
                 r    == allocate_raw_bytes(mem, size, a, hint, at)
                 n    == IF size < oldsize THEN size ELSE oldsize
                 mem1 == IF oldsize # 0 THEN memcpy(r.mem, r.memory, p, n)
                         ELSE r.mem
                 \* _memory_deallocate_malloc(p): the low bit of the header
                 \* is cleared for munmap
                 raw  == IF raw_p % 2 = 1 THEN raw_p - 1 ELSE raw_p
             IN  [mem    |-> released_bytes(mem1, raw, oldlen),
                  memory |-> r.memory,
                  len    |-> r.len]

\* What the platform may answer to the reallocate of p.
CopyAnswers(mem, p, align) ==
    LET a     == _memory_get_align(align)
        raw_p == load_word(mem, p - FOUNDATION_SIZE_POINTER)
    IN  IF takes_inplace(a, raw_p)
        THEN {raw_p} \cup CopyMallocSecond
        ELSE CopyMmapSecond

\* memory_allocate(0, size, align, hint) through the default back end,
\* memory.c:562-571: the owner gets the payload.
CpAllocate ==
    /\ cp_pc = "start"
    /\ \E size \in CopySizes, align \in CopyAligns, hint \in CopyHints :
          \E raw \in (IF "32BIT_ADDRESS" \in hint THEN CopyMmapFirst
                      ELSE CopyMallocFirst) :
              LET r == allocate_raw_bytes(cp_mem, size, _memory_get_align(align),
                                          hint, raw)
              IN  /\ cp_mem' = r.mem
                  /\ cp_p' = r.memory
                  /\ cp_len' = r.len
                  /\ cp_oldsize' = size
                  /\ cp_raw' = raw
    /\ cp_pc' = "allocated"
    /\ UNCHANGED cp_size
    /\ UNCHANGED <<ctxVars, arenaVars, arThreadVars, facVars, mapVars, reVars, tkVars>>

\* The owner writes the bytes of its payload.
CpWrite ==
    /\ cp_pc = "allocated"
    /\ cp_mem' = [a \in DOMAIN cp_mem |->
                     IF cp_p <= a /\ a < cp_p + cp_oldsize
                     THEN DataByte(a - cp_p + 1) ELSE cp_mem[a]]
    /\ cp_pc' = "written"
    /\ UNCHANGED <<cp_len, cp_p, cp_oldsize, cp_size, cp_raw>>
    /\ UNCHANGED <<ctxVars, arenaVars, arThreadVars, facVars, mapVars, reVars, tkVars>>

\* memory_reallocate(p, size, align, oldsize) through the default back end
\* succeeds, memory.c:265-273, 624-732.
CpReallocate ==
    /\ cp_pc = "written"
    /\ \E size \in CopySizes, align \in CopyAligns :
          \E at \in CopyAnswers(cp_mem, cp_p, align) :
              LET r == reallocate_bytes(cp_mem, cp_p, cp_len, size, align,
                                        cp_oldsize, at)
              IN  /\ cp_mem' = r.mem
                  /\ cp_p' = r.memory
                  /\ cp_len' = r.len
                  /\ cp_size' = size
                  /\ cp_raw' = at
    /\ cp_pc' = "reallocated"
    /\ UNCHANGED cp_oldsize
    /\ UNCHANGED <<ctxVars, arenaVars, arThreadVars, facVars, mapVars, reVars, tkVars>>

\* No payload of these runs exists.
CpIdle ==
    /\ cp_pc = "reallocated"
    /\ cp_mem = NoBytes
    /\ cp_len = 0
    /\ cp_p = 0
    /\ cp_oldsize = 0
    /\ cp_size = 0
    /\ cp_raw = 0

\* The owner is about to allocate.
CpStart ==
    /\ cp_pc = "start"
    /\ cp_mem = NoBytes
    /\ cp_len = 0
    /\ cp_p = 0
    /\ cp_oldsize = 0
    /\ cp_size = 0
    /\ cp_raw = 0

(***************************************************************************)
(* Threads in the local tracker, memory.c:867-936. Each thread runs pairs  *)
(* of memory_allocate and memory_deallocate through the default back end   *)
(* (memory.c:243-280); every atomic access of _memory_tag_next and of a    *)
(* slot of _memory_tags is a step of its own.                              *)
(***************************************************************************)
TkThreads == {"t1", "t2"}

MaxPairs == 4       \* the threads start at most this many pairs in all

MaxCursor == 6      \* _memory_tag_next is fetched only below this value

TkAddrs == {512, 544}   \* the payloads the platform's allocator hands out

TkSizes == [t \in TkThreads |-> IF t = "t1" THEN 8 ELSE 24]   \* the size each thread asks for

\* The memory system the threads start in: initialized without arena,
\* the local tracker installed, memory.c:181-196, 761-785.
TrackStart ==
    memory_set_tracker(_memory_initialize(Boot, 0), memory_tracker_local)

\* The loop condition of the cursor of _memory_tracker_track, memory.c:874.
Mut_beyond_table_above_max(tag) == tag > memory_tracker_max

beyond_table(tag) == tag >= memory_tracker_max

\* atomic_cas_ptr(&_memory_tags[tag].address, addr, 0), memory.c:881.
slot_is_free(address) == address = 0

\* What the threaded tracker runs leave alone.
tkRest == <<ctxVars, arenaVars, arThreadVars, mapVars, reVars, cpVars,
            memory_initialized, memory_tracker, memory_tracker_preinit,
            memory_tags, memory_tracker_initialized, heap, log, hooks,
            released, held, calls, inits, swaps, last>>

\* memory_deallocate returns, memory.c:280: the thread's locals are gone.
TkReturn(t) ==
    /\ tk_pc'    = [tk_pc    EXCEPT ![t] = "idle"]
    /\ tk_addr'  = [tk_addr  EXCEPT ![t] = 0]
    /\ tk_size'  = [tk_size  EXCEPT ![t] = 0]
    /\ tk_tag'   = [tk_tag   EXCEPT ![t] = 0]
    /\ tk_iend'  = [tk_iend  EXCEPT ![t] = 0]
    /\ tk_found' = [tk_found EXCEPT ![t] = 0]
    /\ tk_fsize' = [tk_fsize EXCEPT ![t] = 0]

\* memory_allocate through the back end, memory.c:243-263: the platform's
\* allocator hands out a payload it does not hold, and _memory_track calls
\* the tracker's track with it.
TkAllocate(t) ==
    /\ tk_pc[t] = "idle"
    /\ tk_pairs < MaxPairs
    /\ tk_pairs' = tk_pairs + 1
    /\ \E p \in TkAddrs \ tk_live :
          /\ tk_live' = tk_live \cup {p}
          /\ tk_addr' = [tk_addr EXCEPT ![t] = p]
          /\ tk_size' = [tk_size EXCEPT ![t] = TkSizes[t]]
    /\ tk_loop' = [tk_loop EXCEPT ![t] = 0]
    /\ tk_pc' = [tk_pc EXCEPT ![t] =
                    IF memory_tracker_initialized THEN "fetch" ELSE "held"]
    /\ UNCHANGED <<tk_tag, tk_iend, tk_found, tk_fsize>>
    /\ UNCHANGED <<tags, memory_tag_next, memory_stats, tkRest>>

\* tag = atomic_exchange_and_add32(&_memory_tag_next, 1), memory.c:873, 879.
TkFetch(t) ==
    /\ tk_pc[t] = "fetch"
    /\ memory_tag_next < MaxCursor
    /\ tk_tag' = [tk_tag EXCEPT ![t] = memory_tag_next]
    /\ memory_tag_next' = memory_tag_next + 1
    /\ tk_pc' = [tk_pc EXCEPT ![t] =
                    IF beyond_table(memory_tag_next) THEN "wrap" ELSE "claim"]
    /\ UNCHANGED <<tk_addr, tk_size, tk_loop, tk_iend, tk_found, tk_fsize,
                   tk_pairs, tk_live>>
    /\ UNCHANGED <<tags, memory_stats, tkRest>>

\* atomic_cas32(&_memory_tag_next, newtag + 1, tag + 1), memory.c:875-879.
TkWrap(t) ==
    /\ tk_pc[t] = "wrap"
    /\ LET tag    == tk_tag[t]
           newtag == tag % memory_tracker_max
       IN  IF memory_tag_next = tag + 1
           THEN /\ memory_tag_next' = newtag + 1
                /\ tk_tag' = [tk_tag EXCEPT ![t] = newtag]
                /\ tk_pc' = [tk_pc EXCEPT ![t] =
                                IF beyond_table(newtag) THEN "wrap" ELSE "claim"]
           ELSE /\ tk_pc' = [tk_pc EXCEPT ![t] = "fetch"]
                /\ UNCHANGED <<memory_tag_next, tk_tag>>
    /\ UNCHANGED <<tk_addr, tk_size, tk_loop, tk_iend, tk_found, tk_fsize,
                   tk_pairs, tk_live>>
    /\ UNCHANGED <<tags, memory_stats, tkRest>>

\* atomic_cas_ptr(&_memory_tags[tag].address, addr, 0) and the test of the
\* do-while, memory.c:881-886.
TkClaim(t) ==
    /\ tk_pc[t] = "claim"
    /\ LET tag == tk_tag[t]
       IN  IF slot_is_free(tags[tag].address)
           THEN /\ tags' = [tags EXCEPT ![tag].address = tk_addr[t]]
                /\ tk_pc' = [tk_pc EXCEPT ![t] = "size"]
                /\ UNCHANGED tk_loop
           ELSE /\ tk_loop' = [tk_loop EXCEPT ![t] = @ + 1]
                /\ tk_pc' = [tk_pc EXCEPT ![t] =
                                IF tk_loop[t] + 1 < memory_tracker_max * 2
                                THEN "fetch" ELSE "count"]
                /\ UNCHANGED tags
    /\ UNCHANGED <<tk_addr, tk_size, tk_tag, tk_iend, tk_found, tk_fsize,
                   tk_pairs, tk_live>>
    /\ UNCHANGED <<memory_tag_next, memory_stats, tkRest>>

\* _memory_tags[tag].size = size, memory.c:882.
TkSize(t) ==
    /\ tk_pc[t] = "size"
    /\ tags' = [tags EXCEPT ![tk_tag[t]].size = tk_size[t]]
    /\ tk_pc' = [tk_pc EXCEPT ![t] = "count"]
    /\ UNCHANGED <<tk_addr, tk_size, tk_tag, tk_loop, tk_iend, tk_found,
                   tk_fsize, tk_pairs, tk_live>>
    /\ UNCHANGED <<memory_tag_next, memory_stats, tkRest>>

\* The statistics of track, memory.c:893-898; memory_allocate returns.
TkCount(t) ==
    /\ tk_pc[t] = "count"
    /\ memory_stats' = stats_add(memory_stats, tk_size[t])
    /\ tk_pc' = [tk_pc EXCEPT ![t] = "held"]
    /\ tk_tag' = [tk_tag EXCEPT ![t] = 0]
    /\ tk_loop' = [tk_loop EXCEPT ![t] = 0]
    /\ UNCHANGED <<tk_addr, tk_size, tk_iend, tk_found, tk_fsize, tk_pairs,
                   tk_live>>
    /\ UNCHANGED <<tags, memory_tag_next, tkRest>>

\* memory_deallocate, memory.c:275-280: the back end's deallocate gives the
\* payload back to the platform's allocator, then _memory_untrack calls the
\* tracker's untrack.
TkDeallocate(t) ==
    /\ tk_pc[t] = "held"
    /\ tk_live' = tk_live \ {tk_addr[t]}
    /\ tk_found' = [tk_found EXCEPT ![t] = 0]
    /\ tk_fsize' = [tk_fsize EXCEPT ![t] = 0]
    /\ tk_pc' = [tk_pc EXCEPT ![t] =
                    IF memory_tracker_initialized THEN "load" ELSE "release"]
    /\ UNCHANGED <<tk_addr, tk_size, tk_tag, tk_loop, tk_iend, tk_pairs>>
    /\ UNCHANGED <<tags, memory_tag_next, memory_stats, tkRest>>

\* iend = atomic_load32(&_memory_tag_next) % maxtag and itag, memory.c:906-908.
TkLoad(t) ==
    /\ tk_pc[t] = "load"
    /\ LET iend == memory_tag_next % memory_tracker_max
       IN  /\ tk_iend' = [tk_iend EXCEPT ![t] = iend]
           /\ tk_tag' = [tk_tag EXCEPT ![t] =
                            IF iend # 0 THEN iend - 1 ELSE memory_tracker_max - 1]
    /\ tk_pc' = [tk_pc EXCEPT ![t] = "walk"]
    /\ UNCHANGED <<tk_addr, tk_size, tk_loop, tk_found, tk_fsize, tk_pairs,
                   tk_live>>
    /\ UNCHANGED <<tags, memory_tag_next, memory_stats, tkRest>>

\* tagaddr = atomic_loadptr(&_memory_tags[itag].address) and the rest of the
\* pass, memory.c:910-921.
TkWalk(t) ==
    /\ tk_pc[t] = "walk"
    /\ LET itag == tk_tag[t]
       IN  IF tk_addr[t] = tags[itag].address
           THEN /\ tk_found' = [tk_found EXCEPT ![t] = itag + 1]
                /\ tk_pc' = [tk_pc EXCEPT ![t] = "read"]
                /\ UNCHANGED tk_tag
           ELSE IF itag = tk_iend[t]
                THEN /\ tk_pc' = [tk_pc EXCEPT ![t] = "release"]
                     /\ UNCHANGED <<tk_tag, tk_found>>
                ELSE /\ tk_tag' = [tk_tag EXCEPT ![t] =
                                      IF itag # 0 THEN itag - 1
                                      ELSE memory_tracker_max - 1]
                     /\ UNCHANGED <<tk_pc, tk_found>>
    /\ UNCHANGED <<tk_addr, tk_size, tk_loop, tk_iend, tk_fsize, tk_pairs,
                   tk_live>>
    /\ UNCHANGED <<tags, memory_tag_next, memory_stats, tkRest>>

\* size = _memory_tags[itag].size, memory.c:913.
TkRead(t) ==
    /\ tk_pc[t] = "read"
    /\ tk_fsize' = [tk_fsize EXCEPT ![t] = tags[tk_tag[t]].size]
    /\ tk_pc' = [tk_pc EXCEPT ![t] = "release"]
    /\ UNCHANGED <<tk_addr, tk_size, tk_tag, tk_loop, tk_iend, tk_found,
                   tk_pairs, tk_live>>
    /\ UNCHANGED <<tags, memory_tag_next, memory_stats, tkRest>>

\* if (tag && size) atomic_storeptr(&_memory_tags[tag - 1].address, 0),
\* memory.c:925-927; without it memory_deallocate returns.
TkRelease(t) ==
    /\ tk_pc[t] = "release"
    /\ IF tk_found[t] # 0 /\ tk_fsize[t] # 0
       THEN /\ tags' = [tags EXCEPT ![tk_found[t] - 1].address = 0]
            /\ tk_pc' = [tk_pc EXCEPT ![t] = "uncount"]
            /\ UNCHANGED <<tk_addr, tk_size, tk_tag, tk_iend, tk_found, tk_fsize>>
       ELSE /\ TkReturn(t)
            /\ UNCHANGED tags
    /\ UNCHANGED <<tk_loop, tk_pairs, tk_live>>
    /\ UNCHANGED <<memory_tag_next, memory_stats, tkRest>>

\* The statistics of untrack, memory.c:928-931; memory_deallocate returns.
TkUncount(t) ==
    /\ tk_pc[t] = "uncount"
    /\ memory_stats' = stats_sub(memory_stats, tk_fsize[t])
    /\ TkReturn(t)
    /\ UNCHANGED <<tk_loop, tk_pairs, tk_live>>
    /\ UNCHANGED <<tags, memory_tag_next, tkRest>>

\* No thread is in the threaded tracker runs.
TkIdle ==
    /\ tk_pc    = [t \in TkThreads |-> "idle"]
    /\ tk_addr  = [t \in TkThreads |-> 0]
    /\ tk_size  = [t \in TkThreads |-> 0]
    /\ tk_tag   = [t \in TkThreads |-> 0]
    /\ tk_loop  = [t \in TkThreads |-> 0]
    /\ tk_iend  = [t \in TkThreads |-> 0]
    /\ tk_found = [t \in TkThreads |-> 0]
    /\ tk_fsize = [t \in TkThreads |-> 0]
    /\ tk_pairs = 0
    /\ tk_live  = {}

MoreIdle == CpIdle /\ TkIdle

SideIdle == MapIdle /\ ReIdle /\ MoreIdle

(***************************************************************************)
(* The specifications.                                                     *)
(***************************************************************************)

\* The context stack at rest, for the runs that do not exercise it.
CtxIdle ==
    /\ memory_context_depth = 1
    /\ ctx_block   = FALSE
    /\ ctx_depth   = 0
    /\ ctx_context = [i \in 0 .. 0 |-> 0]
    /\ ctx_shadow  = <<>>
    /\ ctx_peak    = 0
    /\ ctx_last    = [op |-> "none", id |-> 0, slot |-> NoSlot, depth |-> 0,
                      context |-> [i \in 0 .. 0 |-> 0], ret |-> 0]

\* The context runs: the memory system is initialized without arena and
\* without tracker, and one thread uses its context stack.
CtxInit ==
    /\ SideIdle
    /\ CtxStart
    /\ ArThreadsIdle
    /\ FacAt(_memory_initialize(Boot, 0))

SpecContext == CtxInit /\ [][CtxNext]_vars

\* The arena runs: the memory system is initialized with an arena of
\* ArenaSize bytes, and the threads allocate from it.
ArenaInit ==
    /\ SideIdle
    /\ CtxIdle
    /\ ArThreadsIdle
    /\ FacAt(_memory_initialize(Boot, ArenaSize))

ArenaNext ==
    \E t \in ArenaThreads :
        \/ ArBegin(t)
        \/ ArLoad(t)
        \/ ArCas(t)
        \/ ArReturn(t)

SpecArena == ArenaInit /\ [][ArenaNext]_vars

\* The arena runs with finitely many requests and a fair scheduler: a
\* thread inside the loop of _atomic_allocate_linear, or about to return
\* from it, is not suspended for ever.
ArenaFairNext ==
    \E t \in ArenaThreads :
        \/ ArBeginCounted(t)
        \/ ArLoad(t)
        \/ ArCas(t)
        \/ ArReturn(t)

ArenaFairness ==
    \A t \in ArenaThreads :
        /\ WF_vars(ArLoad(t))
        /\ WF_vars(ArCas(t))
        /\ WF_vars(ArReturn(t))

SpecArenaFair == ArenaInit /\ [][ArenaFairNext]_vars /\ ArenaFairness

\* The runs of a single-threaded caller, from the start of the process.
Init ==
    /\ SideIdle
    /\ CtxIdle
    /\ ArThreadsIdle
    /\ FacAt(Boot)

Next ==
    \/ FacInitialize
    \/ FacFinalize
    \/ FacSetTracker
    \/ FacAllocate
    \/ FacDeallocate
    \/ FacReallocate

Spec == Init /\ [][Next]_vars

\* The allocation runs: the memory system is initialized with or without
\* arena and without tracker; the caller allocates and deallocates.
\* The life-cycle runs: a caller that initializes and finalizes the memory
\* system more than once and installs any tracker, its own included.
LifeInit ==
    /\ SideIdle
    /\ CtxIdle
    /\ ArThreadsIdle
    /\ FacAt(Boot)

LifeNext ==
    \/ FacInitializeAgain
    \/ FacFinalize
    \/ FacSetTrackerAny
    \/ FacAllocateWord
    \/ FacAbort
    \/ FacDeallocate

SpecLife == LifeInit /\ [][LifeNext]_vars

AllocInit ==
    /\ SideIdle
    /\ CtxIdle
    /\ ArThreadsIdle
    /\ \E temporary_memory \in TemporaryMemoryChoices :
          FacAt(_memory_initialize(Boot, temporary_memory))

AllocNext ==
    \/ FacAllocateAny
    \/ FacDeallocate

SpecAlloc == AllocInit /\ [][AllocNext]_vars

\* The low-address runs: the memory system is initialized, and one call of
\* the default back end with MEMORY_32BIT_ADDRESS runs to its end, on
\* either build, for each answer of mmap.
Low32Init ==
    /\ CtxIdle
    /\ ArThreadsIdle
    /\ FacAt(_memory_initialize(Boot, 0))
    /\ MapStart
    /\ ReIdle
    /\ MoreIdle

Low32Next ==
    \/ MapFirst32
    \/ MapRetry32
    \/ MapHint
    \/ MapFinish

SpecLow32 == Low32Init /\ [][Low32Next]_vars

\* The reallocation runs: the memory system is initialized without tracker,
\* and one memory_reallocate call runs to its end, on each build, for each
\* kind of payload and each answer of the platform's allocator.
ReallocInit ==
    /\ CtxIdle
    /\ ArThreadsIdle
    /\ FacAt(_memory_initialize(Boot, 0))
    /\ MapIdle
    /\ ReStart
    /\ MoreIdle

ReallocNext ==
    \/ ReBackEnd
    \/ ReReturn

SpecRealloc == ReallocInit /\ [][ReallocNext]_vars

\* The copy runs: the memory system is initialized without tracker, and one
\* payload is allocated, written and reallocated, for each size, alignment
\* and hint and each answer of the platform's allocator.
CopyInit ==
    /\ CtxIdle
    /\ ArThreadsIdle
    /\ FacAt(_memory_initialize(Boot, 0))
    /\ MapIdle
    /\ ReIdle
    /\ CpStart
    /\ TkIdle

CopyNext ==
    \/ CpAllocate
    \/ CpWrite
    \/ CpReallocate

SpecCopy == CopyInit /\ [][CopyNext]_vars

\* The threaded tracker runs: the memory system is initialized with the
\* local tracker and no arena, and two threads each run pairs of
\* memory_allocate and memory_deallocate, interleaved at every atomic
\* access of the tracker.
TrackInit ==
    /\ CtxIdle
    /\ ArThreadsIdle
    /\ FacAt(TrackStart)
    /\ MapIdle
    /\ ReIdle
    /\ CpIdle
    /\ TkIdle

TrackNext ==
    \E t \in TkThreads :
        \/ TkAllocate(t)
        \/ TkFetch(t)
        \/ TkWrap(t)
        \/ TkClaim(t)
        \/ TkSize(t)
        \/ TkCount(t)
        \/ TkDeallocate(t)
        \/ TkLoad(t)
        \/ TkWalk(t)
        \/ TkRead(t)
        \/ TkRelease(t)
        \/ TkUncount(t)

SpecTrack == TrackInit /\ [][TrackNext]_vars

(***************************************************************************)
(* Claims about the memory-context stack, checked under SpecContext.       *)
(***************************************************************************)

\* What memory_context() returned before the last call.
CtxResultBefore ==
    IF ctx_last.depth > 0 THEN ctx_last.context[ctx_last.depth - 1] ELSE 0

\* C5: while no more than memory_context_depth-1 ids have ever been
\* outstanding, memory_context() returns the most recent id pushed and not
\* popped, 0 when there is none, and a pop on an empty stack changes neither
\* the depth nor the slots.
C5_ContextIsLifo ==
    /\ ctx_peak <= memory_context_depth - 1 =>
          memory_context_result =
              (IF ctx_shadow = <<>> THEN 0 ELSE ctx_shadow[Len(ctx_shadow)])
    /\ (ctx_last.op = "pop" /\ ctx_last.depth = 0) =>
          /\ ctx_depth = 0
          /\ ctx_context = ctx_last.context
          /\ memory_context_result = 0

\* C5 witness: two ids were pushed, the second one was popped, and the first
\* one (a different, non-zero id) is the current context again.
C5_Witness ==
    /\ ctx_last.op = "pop"
    /\ ctx_last.depth = 2
    /\ ctx_peak = 2
    /\ ctx_peak <= memory_context_depth - 1
    /\ Len(ctx_shadow) = 1
    /\ memory_context_result = ctx_shadow[1]
    /\ memory_context_result # 0
    /\ memory_context_result # ctx_last.context[1]

\* C6: the depth stays within 0 .. memory_context_depth-1 and every slot of
\* context[] a call writes or reads is an index of the buffer.
C6_ContextNeverOverflows ==
    /\ ctx_depth >= 0
    /\ ctx_depth <= memory_context_depth - 1
    /\ ctx_last.slot # NoSlot => ctx_last.slot \in 0 .. memory_context_depth - 1

\* C6 witness: a push on a saturated stack, more ids outstanding than the
\* buffer has slots.
C6_Witness ==
    /\ ctx_last.op = "push"
    /\ ctx_last.depth = memory_context_depth - 1
    /\ ctx_last.slot = memory_context_depth - 1
    /\ Len(ctx_shadow) > memory_context_depth

\* C7 as stated: immediately after any memory_context_push(id),
\* memory_context() returns id.
C7_Original_PushedIdIsCurrent ==
    ctx_last.op = "push" => memory_context_result = ctx_last.id

\* C7 amended: a push on an unsaturated stack makes id the current context;
\* a push on a saturated stack (depth = memory_context_depth-1) writes id to
\* slot memory_context_depth-1, which memory_context() never reads, keeps
\* the depth, and memory_context() returns what it returned before the push.
C7_SaturatedPushKeepsCurrent ==
    ctx_last.op = "push" =>
        IF ctx_last.depth < memory_context_depth - 1
        THEN /\ ctx_depth = ctx_last.depth + 1
             /\ memory_context_result = ctx_last.id
        ELSE /\ ctx_depth = ctx_last.depth
             /\ ctx_context[memory_context_depth - 1] = ctx_last.id
             /\ memory_context_result = CtxResultBefore

\* C7 witness: a push on a saturated stack whose id is not what
\* memory_context() returns afterwards.
C7_Witness ==
    /\ ctx_last.op = "push"
    /\ ctx_last.depth = memory_context_depth - 1
    /\ memory_context_depth >= 2
    /\ ctx_context[memory_context_depth - 1] = ctx_last.id
    /\ memory_context_result # ctx_last.id
    /\ memory_context_result # 0

(***************************************************************************)
(* Claims about the arena under concurrent allocation, checked under       *)
(* SpecArena.                                                              *)
(***************************************************************************)

\* C2: every payload the arena serves for a request (size, align) lies
\* within the storage, past its first word: storage + WORD <= p and
\* p + size <= end, whatever the other threads did before, wrap-arounds
\* included.
C2_ArenaPayloadInBounds ==
    \A t \in ArenaThreads :
        ar_pc[t] = "served" =>
            /\ temporary.storage + FOUNDATION_SIZE_POINTER <= ar_p[t]
            /\ ar_p[t] + ar_req[t].size <= temporary.end

\* C2 witness: two threads hold payloads at once, one of them served by an
\* attempt that wrapped the head around, for a request of non-zero size.
C2_Witness ==
    /\ ar_pc["t1"] = "served"
    /\ ar_pc["t2"] = "served"
    /\ ar_wrapped["t1"]
    /\ ar_req["t1"].size > 0
    /\ ar_p["t1"] # ar_p["t2"]

(***************************************************************************)
(* Claims about the statistics and the leak report of the local tracker,   *)
(* checked under Spec.                                                     *)
(***************************************************************************)

\* C1 as stated: with the local tracker installed, memory_allocate followed
\* at once by memory_deallocate of the payload it returned leaves
\* allocations_current and allocated_current at the values they had before
\* the allocate, for every size (0 included) and every occupancy of the tag
\* table at the time of the allocate (a full table included).
C1_Original_PairRestoresCurrent ==
    (last.op = "deallocate" /\ last.paired /\ last.local) =>
        /\ memory_stats.allocations_current = last.pre_alloc.allocations_current
        /\ memory_stats.allocated_current = last.pre_alloc.allocated_current

\* C4 as stated: with the local tracker installed and the live allocations
\* always fewer than memory_tracker_max, finalize logs exactly one leak
\* warning, with the right size, for each payload allocated and never
\* deallocated, none for a payload that was deallocated, and the tracker
\* swap inside finalize does not log the warnings again.
C4_Original_OneWarningPerLeak ==
    (last.op = "finalize" /\ last.local /\ \A h \in Live(held) : h.room) =>
        /\ Len(log) = Cardinality(Live(held))
        /\ \A h \in Live(held) :
              Cardinality({i \in 1 .. Len(log) :
                              log[i].addr = h.p /\ log[i].size = h.size}) = 1
        /\ \A i \in 1 .. Len(log) : \E h \in Live(held) : log[i].addr = h.p

\* C8: between a successful initialize and the following finalize, under
\* every interleaving of allocate, reallocate, deallocate and set_tracker
\* calls, allocations_total and allocated_total never decrease from one
\* state to the next.
C8_TotalsNeverDecrease ==
    [][(memory_initialized /\ memory_initialized') =>
          /\ memory_stats'.allocations_total >= memory_stats.allocations_total
          /\ memory_stats'.allocated_total >= memory_stats.allocated_total]_vars

\* C8 witness: the tracker has counted allocations, one of them was just
\* deallocated, and the totals stand above the current counters.
C8_Witness ==
    /\ memory_initialized
    /\ last.op = "deallocate"
    /\ last.local
    /\ last.size > 0
    /\ memory_stats.allocations_total >= 2
    /\ memory_stats.allocations_total > memory_stats.allocations_current
    /\ memory_stats.allocated_total > memory_stats.allocated_current

(***************************************************************************)
(* Claims about one memory_allocate call, checked under SpecAlloc.         *)
(***************************************************************************)

\* The arena is live: it has storage.
ArenaLive == temporary.storage # 0

\* C3 as stated: memory_allocate serves a request from the arena exactly
\* when the hint contains TEMPORARY, the arena is live and
\* size + forced_align(align) <= maxchunk, equality included; otherwise the
\* payload comes from the back end and lies outside [storage, end).
C3_Original_ArenaIffAtMostMaxchunk ==
    last.op = "allocate" =>
        /\ last.arena <=>
              /\ "TEMPORARY" \in last.hint
              /\ ArenaLive
              /\ last.size + _memory_get_align_forced(last.align) <= temporary.maxchunk
        /\ (~last.arena /\ last.p # 0) =>
              (last.p < temporary.storage \/ last.p >= temporary.end)

\* C3 amended: memory_allocate serves a request from the arena exactly when
\* the hint contains TEMPORARY, the arena is live and
\* size + forced_align(align) < maxchunk, equality excluded; otherwise the
\* payload comes from the back end and lies outside [storage, end).
C3_ArenaIffBelowMaxchunk ==
    last.op = "allocate" =>
        /\ last.arena <=>
              /\ "TEMPORARY" \in last.hint
              /\ ArenaLive
              /\ last.size + _memory_get_align_forced(last.align) < temporary.maxchunk
        /\ (~last.arena /\ last.p # 0) =>
              (last.p < temporary.storage \/ last.p >= temporary.end)

\* C3 witness: a TEMPORARY request with size + forced_align(align) equal to
\* maxchunk on a live arena, served by the back end outside the storage.
C3_Witness ==
    /\ last.op = "allocate"
    /\ "TEMPORARY" \in last.hint
    /\ ArenaLive
    /\ last.size + _memory_get_align_forced(last.align) = temporary.maxchunk
    /\ ~last.arena
    /\ last.p # 0
    /\ last.p >= temporary.end

\* effective_align(a) as the specification defines it: 0 for 0, else the
\* power of two at or above a, at least WORD and at most MAX_ALIGN.
EffectiveAlign(a) ==
    IF a = 0 THEN 0
    ELSE LET pow == MinOf({q \in {1, 2, 4, 8, 16, 32} : q >= a})
             low == IF pow < FOUNDATION_SIZE_POINTER
                    THEN FOUNDATION_SIZE_POINTER ELSE pow
         IN  IF low > FOUNDATION_MAX_ALIGN THEN FOUNDATION_MAX_ALIGN ELSE low

\* C9: every non-null payload p of memory_allocate(_, size, align, _), from
\* the arena or from the back end, has p mod effective_align(align) = 0
\* when effective_align(align) > 0 and has bit 0 clear, for align 0, for an
\* align that is no power of two and for an align above MAX_ALIGN.
C9_PayloadIsAligned ==
    (last.op = "allocate" /\ last.p # 0) =>
        /\ EffectiveAlign(last.align) > 0 =>
              last.p % EffectiveAlign(last.align) = 0
        /\ last.p % 2 = 0

\* C9 witness: the back end serves a request whose align is above
\* MAX_ALIGN from a raw block that is WORD-aligned and not 16-aligned.
C9_Witness ==
    /\ last.op = "allocate"
    /\ last.p # 0
    /\ ~last.arena
    /\ last.align > FOUNDATION_MAX_ALIGN
    /\ \E b \in heap : b.p = last.p /\ b.raw % FOUNDATION_MAX_ALIGN # 0
    /\ last.p % FOUNDATION_MAX_ALIGN = 0

(***************************************************************************)
(* Claims about the low-address path of the default back end, checked      *)
(* under SpecLow32.                                                        *)
(***************************************************************************)

\* C10 as stated: every non-null payload p the default back end returns for
\* a request of size bytes with the 32BIT_ADDRESS hint lies entirely in the
\* low 4 GiB, p < 2^32 and p + size <= 2^32, on every mapping path, the
\* retry after a failed first mapping included.
C10_Original_PayloadBelow4GiB ==
    (map_pc = "done" /\ map_memory # Zero64) =>
        /\ W64Less(map_memory, TwoTo32)
        /\ W64LessEq(W64Add(map_memory, W64(map_size)), TwoTo32)

(***************************************************************************)
(* Claims about the failures of the facade, checked under Spec.            *)
(***************************************************************************)

\* C11: memory_allocate returns null only when the back end was called and
\* returned null, and then the tag table and the four statistics counters
\* are after the call what they were before it.
C11_NullLeavesTrackerAlone ==
    [][(last'.op = "allocate" /\ last'.p = 0) =>
          /\ last'.backend = "null"
          /\ tags' = tags
          /\ memory_stats' = memory_stats]_vars

\* C11 witness: memory_allocate returned null with the local tracker
\* installed and a free slot in its table, for a TEMPORARY request on a
\* live arena that the arena did not serve.
C11_Witness ==
    /\ last.op = "allocate"
    /\ last.p = 0
    /\ last.local
    /\ last.occ < memory_tracker_max
    /\ "TEMPORARY" \in last.hint
    /\ temporary.storage # 0

(***************************************************************************)
(* Claims about a failing reallocation, checked under SpecRealloc.         *)
(***************************************************************************)

\* C12 as stated: on every path of the default back end's reallocate a
\* failure to obtain the new block raises the fatal panic, so that
\* memory_reallocate never returns null without the panic having been
\* raised.
C12_Original_NullOnlyAfterPanic ==
    (re_pc = "returned" /\ re_memory = 0) => re_panic


(***************************************************************************)
(* The life cycle of the tracker.                                          *)
(***************************************************************************)

\* A tracker table whose track or untrack hook is not the no-op tracker's.
DiffersFromNoTracker(T) ==
    \/ T.track   # _memory_no_tracker.track
    \/ T.untrack # _memory_no_tracker.untrack

\* The hooks a tracker table has.
HooksOf(T) ==
    {T.track, T.untrack, T.initialize, T.abort, T.finalize} \ {NullHook}

\* The number of calls of a hook in a history of hook calls.
CallsIn(H, hook) == Cardinality({i \in DOMAIN H : H[i].hook = hook})

\* The last call was memory_set_tracker(T) before the memory system was
\* initialized, T's track or untrack hook not the no-op tracker's.
LatchedBeforeInit(L) ==
    /\ L.op = "set_tracker"
    /\ ~L.initialized
    /\ DiffersFromNoTracker(L.tracker)

\* C13 as stated: memory_set_tracker(T) before initialization calls no hook
\* of T, and the initialization that follows makes T the current tracker
\* and has called T's initialize hook, if T has one, exactly once.
C13_Original_LatchedTrackerInstalled ==
    [][/\ LatchedBeforeInit(last') =>
             \A i \in DOMAIN hooks' : hooks'[i].hook \notin HooksOf(last'.tracker)
       /\ (LatchedBeforeInit(last) /\ last'.op = "initialize") =>
             /\ memory_tracker' = last.tracker
             /\ last.tracker.initialize # NullHook =>
                   CallsIn(hooks', last.tracker.initialize) = 1]_vars


\* C14 as stated: _memory_finalize leaves the no-op tracker current and the
\* memory system not initialized, and the next _memory_initialize, with no
\* memory_set_tracker between, makes the tracker that was current at the
\* finalize current again, its initialize hook called.
C14_Original_TrackerSurvivesRestart ==
    [][/\ last'.op = "finalize" =>
             /\ memory_tracker' = _memory_no_tracker
             /\ ~memory_initialized'
       /\ (last.op = "finalize" /\ last'.op = "initialize") =>
             /\ memory_initialized'
             /\ memory_tracker' = last.installed
             /\ last.installed.initialize # NullHook =>
                   CallsIn(hooks', last.installed.initialize) = 1
             /\ last.installed = memory_tracker_local =>
                   memory_tracker_initialized']_vars


\* The test of memory.c:765: two tracker tables are told apart by their
\* track and untrack hooks only.
SameTracker(A, B) == A.track = B.track /\ A.untrack = B.untrack

\* The hook calls of a swap from old to new, in the order stated, each with
\* the no-op tracker installed.
SwapHooks(old, new, initialized) ==
    LET slots == <<old.abort, old.finalize>> \o
                 (IF initialized THEN <<new.initialize>> ELSE <<>>)
        IsHook(h) == h # NullHook
        called == SelectSeq(slots, IsHook)
    IN  [i \in DOMAIN called |->
            [hook |-> called[i], installed |-> _memory_no_tracker]]

\* C15 as stated: memory_set_tracker(new) with new not the current tracker
\* calls the old tracker's abort, its finalize and (initialized) new's
\* initialize in this order, the no-op tracker installed throughout, and
\* then new is installed; with new the current tracker nothing is called
\* and nothing changes.
C15_Original_SwapOrder ==
    [][last'.op = "set_tracker" =>
         IF last'.tracker # memory_tracker
         THEN /\ hooks' = SwapHooks(memory_tracker, last'.tracker, memory_initialized)
              /\ memory_initialized => memory_tracker' = last'.tracker
         ELSE Cur' = Start]_vars

\* C15: memory_set_tracker(new) with new's track or untrack hook not the
\* current tracker's calls the old tracker's abort, its finalize and
\* (initialized) new's initialize in this order, the no-op tracker installed
\* throughout; then new is installed if the memory system is initialized
\* and latched for the initialization if it is not. With the track and
\* untrack hooks of the current tracker, nothing is called and nothing
\* changes, whatever new's other hooks.
C15_SwapOrderByTrackHooks ==
    [][last'.op = "set_tracker" =>
         IF ~SameTracker(last'.tracker, memory_tracker)
         THEN /\ hooks' = SwapHooks(memory_tracker, last'.tracker, memory_initialized)
              /\ memory_initialized => memory_tracker' = last'.tracker
              /\ ~memory_initialized =>
                    /\ memory_tracker' = _memory_no_tracker
                    /\ memory_tracker_preinit' = last'.tracker
         ELSE Cur' = Start]_vars

\* A swap from a tracker with abort and finalize hooks to one with an
\* initialize hook has happened: three hooks were called and the new
\* tracker is installed.
C15_Witness ==
    /\ last.op = "set_tracker"
    /\ last.initialized
    /\ ~SameTracker(last.tracker, last.installed)
    /\ Len(hooks) = 3
    /\ memory_tracker = last.tracker


\* C16: a CAS on head that fails was overtaken, another thread's CAS on
\* head having succeeded since the failing thread loaded head; and with
\* finitely many requests and fair scheduling every call that entered the
\* loop of _atomic_allocate_linear returns.
C16_ArenaIsLockFree ==
    /\ [][\A t \in ArenaThreads :
            (ar_pc[t] = "cas" /\ ar_pc'[t] = "load") => ar_overtaken[t]]_vars
    /\ \A t \in ArenaThreads :
            (ar_pc[t] \in {"load", "cas"}) ~> (ar_pc[t] = "served")

\* A thread whose CAS failed is back at the load while the other thread has
\* been served.
C16_Witness ==
    /\ ar_pc["t1"] = "load"
    /\ ar_overtaken["t1"]
    /\ ar_pc["t2"] = "served"


\* C20: while the arena is live, whatever the interleaving of the arena
\* allocations of two threads with chunks below maxchunk, the head lies in
\* [storage + 8, end]; it is never the storage address.
C20_HeadWithinArena ==
    ArenaLive =>
        /\ temporary.storage + 8 <= temporary.head
        /\ temporary.head <= temporary.end
        /\ temporary.head # temporary.storage

\* The head has reached the end of the storage, one thread served from the
\* last bytes, while the other thread has loaded the head and is about to
\* wrap it around.
C20_Witness ==
    /\ ArenaLive
    /\ temporary.head = temporary.end
    /\ ar_pc["t1"] = "served"
    /\ ar_pc["t2"] = "cas"
    /\ ar_old["t2"] = temporary.end


(***************************************************************************)
(* Claims about the tag table of the local tracker.                        *)
(***************************************************************************)

\* The last call was a memory_allocate that returned a payload while the
\* local tracker was installed with every slot of its table occupied: its
\* track hook ran out of attempts.
TrackExhausted(L) ==
    /\ L.op = "allocate"
    /\ L.p # 0
    /\ L.local
    /\ L.occ = memory_tracker_max

\* C17 as stated: a track that runs out of attempts with every slot
\* occupied records no entry and leaves the four counters as they were.
C17_Original_ExhaustedTrackCountsNothing ==
    [][TrackExhausted(last') =>
          /\ tags' = tags
          /\ memory_stats' = memory_stats]_vars


\* The slots of the tag table that hold addr.
SlotsHolding(addr) == {i \in DOMAIN tags : tags[i].address = addr}

\* C18 as stated: the untrack of a memory_deallocate(p) under the local
\* tracker, installed and initialized, whatever the cursor, the slot and
\* the size recorded (0 included): when a slot holds p, one such slot is
\* cleared and the current counters fall by one and by the size recorded in
\* that slot; when no slot holds p, table and counters are unchanged.
C18_Original_UntrackReleasesSlot ==
    [][(last'.op = "deallocate" /\ last'.local) =>
          IF SlotsHolding(last'.p) # {}
          THEN \E i \in SlotsHolding(last'.p) :
                  /\ tags' = [tags EXCEPT ![i].address = 0]
                  /\ memory_stats' =
                        [memory_stats EXCEPT
                            !.allocations_current = @ - 1,
                            !.allocated_current   = @ - tags[i].size]
          ELSE /\ tags' = tags
               /\ memory_stats' = memory_stats]_vars


\* C19 as stated: the abort hook of the local tracker clears the
\* initialized flag and leaves the tag table allocated, its entries
\* unchanged.
C19_Original_AbortKeepsTable ==
    [][last'.op = "abort" =>
          /\ ~memory_tracker_initialized'
          /\ memory_tags' = memory_tags
          /\ tags' = tags
          /\ heap' = heap]_vars

\* C19: the abort hook of the local tracker clears the initialized flag and
\* releases the tag table when there is one: the entries are gone without a
\* leak warning, the block goes back to the back end and the current
\* counters fall by one allocation and the size of the table. Without a
\* table it changes nothing else.
C19_AbortReleasesTable ==
    [][last'.op = "abort" =>
          /\ ~memory_tracker_initialized'
          /\ memory_tags' = 0
          /\ tags' = ZeroTags
          /\ log' = <<>>
          /\ memory_tracker' = memory_tracker
          /\ IF memory_tags # 0
             THEN /\ IsBlock(Cur, memory_tags)
                  /\ ~IsBlock(Cur', memory_tags)
                  /\ memory_stats' =
                        [memory_stats EXCEPT
                            !.allocations_current = @ - 1,
                            !.allocated_current   =
                                @ - SizeofMemoryTag * memory_tracker_max]
             ELSE /\ heap' = heap
                  /\ memory_stats' = memory_stats]_vars

\* The abort hook has run on an initialized local tracker whose table held
\* an entry: the table is released.
C19_Witness ==
    /\ last.op = "abort"
    /\ last.local
    /\ last.occ > 0
    /\ memory_tags = 0
    /\ held # {}


(***************************************************************************)
(* Claims about memory_deallocate.                                         *)
(***************************************************************************)

\* C21: memory_deallocate(p) gives p to the back end's deallocate exactly
\* when p lies outside [storage, end), and so always when the arena is
\* disabled; it calls the untrack hook of the tracker installed, once, in
\* both cases; and for p inside the arena it leaves the arena, head and
\* storage included, as it was.
C21_DeallocateRoutesByRange ==
    [][last'.op = "deallocate" =>
          LET p      == last'.p
              inside == temporary.storage <= p /\ p < temporary.end
          IN  /\ released' = IF inside THEN <<>> ELSE <<p>>
              /\ memory_tracker.untrack # NullHook =>
                    hooks' = <<[hook      |-> memory_tracker.untrack,
                                installed |-> memory_tracker]>>
              /\ inside => temporary' = temporary
              /\ ~ArenaLive => released' = <<p>>]_vars

\* A payload of the arena was deallocated under the local tracker: the back
\* end was not called and the untrack hook was.
C21_Witness ==
    /\ last.op = "deallocate"
    /\ last.arena
    /\ last.local
    /\ released = <<>>
    /\ Len(hooks) = 1


(***************************************************************************)
(* Claims about the bytes of a reallocated payload, checked under          *)
(* SpecCopy.                                                               *)
(***************************************************************************)

\* C22 as stated: after a successful reallocate of a payload of the default
\* back end, whatever the alignments of the allocate and of the reallocate,
\* the first min(newsize, oldsize) bytes of the payload returned are those
\* the owner wrote, and the word below the payload returned is the raw
\* pointer of the new block (tagged in its low bit for a page mapping).
C22_Original_ReallocateKeepsBytes ==
    cp_pc = "reallocated" =>
        /\ \A i \in 0 .. (IF cp_size < cp_oldsize THEN cp_size ELSE cp_oldsize) - 1 :
               cp_mem[cp_p + i] = DataByte(i + 1)
        /\ load_word(cp_mem, cp_p - FOUNDATION_SIZE_POINTER) \in {cp_raw, cp_raw + 1}


\* C23 as stated: on either build, a 32BIT_ADDRESS call whose every mmap
\* failed or answered pages that were not accepted returns null, with no
\* header written and no mapping left behind; so a call that returns a
\* payload made it from a mapping the kernel holds, and no header is ever
\* written through MAP_FAILED.
C23_Original_FailedMappingReturnsNull ==
    map_pc = "done" =>
        /\ \A h \in headers : h.raw # MAP_FAILED
        /\ map_memory # Zero64 =>
              \E m \in mappings : m.addr = raw_memory
        /\ map_memory = Zero64 =>
              /\ headers = {}
              /\ mappings = {}


\* C24: between two consecutive wrap-arounds of the head, no address is
\* handed out twice by _atomic_allocate_linear: the ranges
\* [return_pointer, return_pointer + chunksize) of the calls of any threads
\* are pairwise disjoint, whatever the interleaving.
C24_ChunksDisjointBetweenWraps ==
    ar_twice = {}

\* Two threads hold chunks at once that were handed out in the same stretch
\* between wrap-arounds, one of them by the attempt that wrapped, the other
\* after it, and more chunks than theirs were handed out since.
C24_Witness ==
    /\ ar_pc["t1"] = "served"
    /\ ar_pc["t2"] = "served"
    /\ ar_wrapped["t1"]
    /\ ~ar_wrapped["t2"]
    /\ ar_p["t1"] \in ar_taken
    /\ ar_p["t2"] \in ar_taken
    /\ Cardinality(ar_taken) > ArChunk("t1") + ArChunk("t2")


\* C27 as stated: after memory_set_tracker calls made before the memory
\* system is initialized, the tracker current after the initialization that
\* follows is the argument of the last of those calls; if that was the
\* no-op tracker, the initialization installs no tracker.
C27_Original_LastPreinitTrackerWins ==
    [][(/\ last.op = "set_tracker"
        /\ ~last.initialized
        /\ last'.op = "initialize") =>
            memory_tracker' = last.tracker]_vars

(***************************************************************************)
(* Claims about threads in the local tracker, checked under SpecTrack.     *)
(***************************************************************************)

\* The index thread t is about to access _memory_tags with, or NoSlot.
TkIndex(t) ==
    IF tk_pc[t] \in {"claim", "size", "walk", "read"} THEN tk_tag[t]
    ELSE IF tk_pc[t] = "release" /\ tk_found[t] # 0 /\ tk_fsize[t] # 0
         THEN tk_found[t] - 1
         ELSE NoSlot

\* C25: under any interleaving of track and untrack calls on the
\* initialized local tracker, every index used to access the tag table is
\* in [0, memory_tracker_max), and an address is written only into a slot
\* whose address was 0 at the CAS, so no occupied slot is overwritten.
C25_TrackerStaysInTable ==
    /\ [](\A t \in TkThreads : TkIndex(t) # NoSlot => TkIndex(t) \in TagSlots)
    /\ [][\A i \in TagSlots :
              tags'[i].address # tags[i].address =>
                  \/ tags'[i].address = 0
                  \/ /\ tags[i].address = 0
                     /\ \E t \in TkThreads :
                           /\ tk_pc[t] = "claim" /\ tk_pc'[t] = "size"
                           /\ tk_tag[t] = i
                           /\ tags'[i].address = tk_addr[t]]_vars

\* A thread claimed a free slot after it was refused an occupied one, while
\* the other thread walks the table.
C25_Witness ==
    /\ tk_pc["t1"] = "size"
    /\ tk_loop["t1"] >= 1
    /\ tags[tk_tag["t1"]].address = tk_addr["t1"]
    /\ tk_pc["t2"] = "walk"
    /\ \E i \in TagSlots : i # tk_tag["t1"] /\ tags[i].address # 0


\* Every thread is between two pairs of calls.
TkFinished == \A t \in TkThreads : tk_pc[t] = "idle"

\* C26 as stated: threads run matched pairs of memory_allocate and
\* memory_deallocate through a back end that may hand a freed address to
\* another thread at once, with no more live payloads than slots; once all
\* threads have finished every slot's address is 0 and allocations_current
\* and allocated_current are back at their starting values.
C26_Original_PairsLeaveTableEmpty ==
    (TkFinished /\ Cardinality(TkAddrs) <= memory_tracker_max) =>
        /\ \A i \in TagSlots : tags[i].address = 0
        /\ memory_stats.allocations_current = TrackStart.stats.allocations_current
        /\ memory_stats.allocated_current = TrackStart.stats.allocated_current

====
